---------------------------- MODULE Spec2Model ----------------------------
(***************************************************************************)
(* A model of the I/O simulation engine of Driver_USB.py: the buffer       *)
(* manager, the interrupt table, the block and character device drivers,   *)
(* the scheduler and the dispatch loop of IOManager.                       *)
(*                                                                         *)
(* Representation.                                                         *)
(*  - A data size (data_size_mb, a float) is an integer number of half     *)
(*    kilobytes: data_size_mb = h / 2048.  int(size_mb * 1024) is then     *)
(*    h \div 2, and size_mb * 1024 * 1024 bytes is h * 512.                *)
(*  - None is the empty tuple and a present optional value x is <<x>>.     *)
(*  - A request (IOOperation) is named by its index in ops; index 0 names  *)
(*    no request.                                                          *)
(*  - time.time() stamps are kept as Stamp / None: no claim reads a clock. *)
(*  - The dispatch loop is one thread; its position is io_manager.pc.  It  *)
(*    can be interleaved with the other threads between the steps below.   *)
(***************************************************************************)
EXTENDS Integers, Sequences, FiniteSets, TLC

\* ------------------------------------------------------------------ bounds

\* Requests created in one behaviour.
MaxOps == 2
\* Interrupts triggered from outside the drivers in one behaviour.
MaxInterrupts == 2
\* Calls made on a component driven on its own (buffer manager, scheduler).
MaxCalls == 4
\* Nested trigger_interrupt calls the interpreter allows before it raises
\* RecursionError.
MaxRecursion == 2

\* ------------------------------------------------------- program constants

\* BufferManager(2048) of test_core_functionality and of the GUI.
PoolKb == 2048
\* BufferManager's default total_buffer_size_kb.
DefaultPoolKb == 1024

None == <<>>
Some(x) == <<x>>
\* a time.time() value
Stamp == <<"t">>

HalfKbPerMb == 2 * 1024
MB(n) == n * HalfKbPerMb

\* ------------------------------------------------------------------- state

VARIABLES
    buffer_manager,     \* BufferManager: total_buffer_size_kb, buffers, used_buffer_kb
    interrupt_table,    \* InterruptTable: interrupt_handlers, interrupt_history, interrupt_stats
    dcb,                \* device id -> DeviceControlBlock of its driver
    drv_history,        \* device id -> DeviceDriver.operation_history
    ops,                \* the IOOperation objects created so far
    io_scheduler,       \* IOScheduler: algorithm, operation_queues
    sched_log,          \* per device, the calls on io_scheduler that enqueued or
                        \* returned a request, in order
    fifo_scheduler,     \* a second IOScheduler, constructed with FIFO
    fifo_returned,      \* per device, the requests fifo_scheduler returned
    io_manager,         \* IOManager: running, stats, operation_history, thread position
    notified,           \* what the subscribed status listener has been called with
    ret,                \* the value the last call on a component returned; with
                        \* exceptions in the dispatch loop, the number of requests
                        \* that existed when the loop last caught one
    calls,              \* calls and external events so far
    submitters,         \* the threads inside IOScheduler.add_operation: position
                        \* and local variables
    table_calls,        \* the calls made on an InterruptTable driven on its own
    driver_table        \* DeviceDriverTable: drivers

vars == <<buffer_manager, interrupt_table, dcb, drv_history, ops, io_scheduler,
          sched_log, fifo_scheduler, fifo_returned, io_manager, notified, ret,
          calls, submitters, table_calls, driver_table>>

\* ------------------------------------------------------------ finite maps

Put(f, k, v) == [x \in (DOMAIN f) \cup {k} |-> IF x = k THEN v ELSE f[x]]
Del(f, k) == [x \in (DOMAIN f) \ {k} |-> f[x]]
EmptyMap == [x \in {} |-> 0]

\* ------------------------------------------------------------ BufferManager

BufferManagerInit(total_buffer_size_kb) ==
    [total_buffer_size_kb |-> total_buffer_size_kb,
     buffers |-> EmptyMap,
     used_buffer_kb |-> 0]

\* int(size_mb * 1024) for size_mb >= 0
SizeKb(size_mb) == size_mb \div 2

\* a variant that tests the pool before adding the request's size
allocate_buffer_unchecked(bm, size_mb, operation_id) ==
    LET size_kb == SizeKb(size_mb) IN
    IF bm.used_buffer_kb > bm.total_buffer_size_kb
    THEN [ok |-> FALSE, bm |-> bm]
    ELSE [ok |-> TRUE,
          bm |-> [bm EXCEPT !.buffers = Put(@, operation_id, size_kb),
                            !.used_buffer_kb = @ + size_kb]]

\* a variant that refuses a request that fits exactly
allocate_buffer_exclusive(bm, size_mb, operation_id) ==
    LET size_kb == SizeKb(size_mb) IN
    IF bm.used_buffer_kb + size_kb >= bm.total_buffer_size_kb
    THEN [ok |-> FALSE, bm |-> bm]
    ELSE [ok |-> TRUE,
          bm |-> [bm EXCEPT !.buffers = Put(@, operation_id, size_kb),
                            !.used_buffer_kb = @ + size_kb]]

\* BufferManager.allocate_buffer: the Buffer it creates has size_kb = size_kb
allocate_buffer(bm, size_mb, operation_id) ==
    LET size_kb == SizeKb(size_mb) IN
    IF bm.used_buffer_kb + size_kb > bm.total_buffer_size_kb
    THEN [ok |-> FALSE, bm |-> bm]
    ELSE [ok |-> TRUE,
          bm |-> [bm EXCEPT !.buffers = Put(@, operation_id, size_kb),
                            !.used_buffer_kb = @ + size_kb]]

\* BufferManager.release_buffer
release_buffer(bm, operation_id) ==
    IF operation_id \in DOMAIN bm.buffers
    THEN [ok |-> TRUE,
          bm |-> [bm EXCEPT !.used_buffer_kb = @ - bm.buffers[operation_id],
                            !.buffers = Del(@, operation_id)]]
    ELSE [ok |-> FALSE, bm |-> bm]

\* BufferManager.get_buffer_usage, as the fraction <<numerator, denominator>>
get_buffer_usage(bm) ==
    IF bm.total_buffer_size_kb > 0
    THEN <<bm.used_buffer_kb * 100, bm.total_buffer_size_kb>>
    ELSE <<0, 1>>

\* ------------------------------------------------------------------ devices

\* The drivers of the run: a block device and a character device, as
\* initialize_default_devices creates them (device ids are the keys of
\* DeviceDriverTable.drivers).
Devices == {1, 2}
DeviceList == <<1, 2>>

\* Further drivers, as load_configuration of the GUI creates them under the
\* names and types of a configuration file (the handlers of the drivers it
\* unregistered stay in the interrupt table): a second block device and a
\* character device, both named like device 1.
TableDrivers == {1, 3, 4}
AllDrivers == Devices \cup TableDrivers

\* DeviceDriverTable.__init__; a driver is named by the key of its device
\* control block in dcb
DeviceDriverTable == [drivers |-> EmptyMap]

\* a variant that reports success for every identifier
unregister_driver_always(t, device_id) ==
    [ok |-> TRUE, t |-> [t EXCEPT !.drivers = Del(@, device_id)]]

\* DeviceDriverTable.register_driver
register_driver(t, device_id, driver_instance) ==
    [t EXCEPT !.drivers = Put(@, device_id, driver_instance)]

\* DeviceDriverTable.get_driver: dict.get gives None for a missing key
get_driver(t, device_id) ==
    IF device_id \in DOMAIN t.drivers THEN Some(t.drivers[device_id]) ELSE None

\* DeviceDriverTable.unregister_driver
unregister_driver(t, device_id) ==
    IF device_id \in DOMAIN t.drivers
    THEN [ok |-> TRUE, t |-> [t EXCEPT !.drivers = Del(@, device_id)]]
    ELSE [ok |-> FALSE, t |-> t]

\* DeviceDriverTable.get_all_drivers
get_all_drivers(t) == t.drivers

\* the table after the drivers of the run were registered (GUI.py lines
\* 509, 520, 531; Driver_USB.py line 709)
DefaultDrivers ==
    [drivers |-> [d \in Devices |-> d]]

\* The drivers add_block_device and add_character_device of the GUI create
\* for a device id: a block driver is named 100 + device_id, a character
\* driver 200 + device_id.
BlockDriver(device_id) == 100 + device_id
CharacterDriver(device_id) == 200 + device_id

\* DeviceControlBlock.device_type
DeviceType(d) ==
    IF d \in {1, 3} \/ (d >= 100 /\ d < 200) THEN "BLOQUE" ELSE "CARACTER"

\* DeviceControlBlock.device_name, as a sequence of tokens
DeviceName(d) ==
    IF d >= 200 THEN <<"Dispositivo", " ", "de", " ", "Caracteres", " ", ToString(d - 200)>>
    ELSE IF d >= 100 THEN <<"Dispositivo", " ", "de", " ", "Bloques", " ", ToString(d - 100)>>
    ELSE IF d = 2 THEN <<"Teclado">> ELSE <<"Unidad", " ", "USB">>

\* str.upper().replace(' ', '_') on one token
UpperToken(t) ==
    CASE t = "Unidad" -> "UNIDAD"
      [] t = "Teclado" -> "TECLADO"
      [] t = "Dispositivo" -> "DISPOSITIVO"
      [] t = "de" -> "DE"
      [] t = "Bloques" -> "BLOQUES"
      [] t = "Caracteres" -> "CARACTERES"
      [] t = " " -> "_"
      [] OTHER -> t

\* f"{device_name.upper().replace(' ', '_')}_{event}"
InterruptName(device_name, event) ==
    [i \in 1..Len(device_name) |-> UpperToken(device_name[i])] \o <<"_", event>>

\* DeviceControlBlock.__init__: the fields the drivers change
DeviceControlBlock ==
    [status |-> "DESCONECTADO",
     current_position |-> 0,
     error_count |-> 0,
     operations_completed |-> 0,
     bytes_transferred |-> 0,
     last_operation_time |-> None]

\* IOOperation.__init__: operation_type and process_name are read by no branch
IOOperation(data_size_mb, priority, block_address) ==
    [data_size_mb |-> data_size_mb,
     priority |-> priority,
     block_address |-> block_address,
     start_time |-> None,
     completion_time |-> None,
     status |-> "PENDIENTE"]

\* ----------------------------------------------------------- InterruptTable

InterruptTableInit ==
    [interrupt_handlers |-> EmptyMap,
     interrupt_history |-> <<>>,
     interrupt_stats |-> EmptyMap]

\* a variant that keeps the handler an interrupt type already has
register_interrupt_handler_keeps_first(it, interrupt_type, handler) ==
    IF interrupt_type \in DOMAIN it.interrupt_handlers
    THEN it
    ELSE [it EXCEPT !.interrupt_handlers = Put(@, interrupt_type, handler),
                    !.interrupt_stats = Put(@, interrupt_type,
                                            [count |-> 0, last_triggered |-> None])]

\* InterruptTable.register_interrupt_handler
register_interrupt_handler(it, interrupt_type, handler) ==
    [it EXCEPT !.interrupt_handlers = Put(@, interrupt_type, handler),
               !.interrupt_stats = Put(@, interrupt_type,
                                       [count |-> 0, last_triggered |-> None])]

\* A handler is a bound method: the driver it belongs to, the driver's class
\* and the method's name.
Handler(d, method) == [driver |-> d, kind |-> DeviceType(d), method |-> method]

\* a callable that is no method of a driver and raises an exception when called
RaisingHandler == [driver |-> 0, kind |-> "callable", method |-> "raises"]

\* the <<interrupt type, handler>> pairs a driver's __init__ registers, in
\* order
DriverRegistrations(d) ==
    LET n == DeviceName(d)
    IN <<<<InterruptName(n, "CONNECT"), Handler(d, "on_connect")>>,
         <<InterruptName(n, "DISCONNECT"), Handler(d, "on_disconnect")>>,
         IF DeviceType(d) = "BLOQUE"
         THEN <<InterruptName(n, "ERROR"), Handler(d, "on_error")>>
         ELSE <<InterruptName(n, "DATA_AVAILABLE"), Handler(d, "on_data_available")>>>>

\* BlockDeviceDriver.__init__ / CharacterDeviceDriver.__init__
RegisterDriverHandlers(it, d) ==
    LET n == DeviceName(d)
        a == register_interrupt_handler(it, InterruptName(n, "CONNECT"),
                                        Handler(d, "on_connect"))
        b == register_interrupt_handler(a, InterruptName(n, "DISCONNECT"),
                                        Handler(d, "on_disconnect"))
    IN IF DeviceType(d) = "BLOQUE"
       THEN register_interrupt_handler(b, InterruptName(n, "ERROR"),
                                       Handler(d, "on_error"))
       ELSE register_interrupt_handler(b, InterruptName(n, "DATA_AVAILABLE"),
                                       Handler(d, "on_data_available"))

\* The objects a driver works on: the requests, the device control blocks,
\* the drivers' histories, the buffer manager and the interrupt table.
World == [ops |-> ops, dcb |-> dcb, drv_history |-> drv_history,
          bm |-> buffer_manager, it |-> interrupt_table]

\* a variant that counts every interrupt type, registered or not
RecordInterruptCountsAll(it, interrupt_type, args) ==
    LET h == [it EXCEPT !.interrupt_history =
                  Append(@, [type |-> interrupt_type, args |-> args])]
        n == IF interrupt_type \in DOMAIN it.interrupt_stats
             THEN it.interrupt_stats[interrupt_type].count ELSE 0
    IN [h EXCEPT !.interrupt_stats =
            Put(@, interrupt_type, [count |-> n + 1, last_triggered |-> Stamp])]

\* a variant that keeps no history of the interrupts of registered types
RecordInterruptUnlogged(it, interrupt_type, args) ==
    IF interrupt_type \in DOMAIN it.interrupt_stats
    THEN [it EXCEPT !.interrupt_stats[interrupt_type] =
             [count |-> @.count + 1, last_triggered |-> Stamp]]
    ELSE [it EXCEPT !.interrupt_history =
             Append(@, [type |-> interrupt_type, args |-> args])]

\* the history entry and the statistics of one trigger (lines 149-160)
RecordInterrupt(it, interrupt_type, args) ==
    LET h == [it EXCEPT !.interrupt_history =
                  Append(@, [type |-> interrupt_type, args |-> args])]
    IN IF interrupt_type \in DOMAIN it.interrupt_stats
       THEN [h EXCEPT !.interrupt_stats[interrupt_type] =
                [count |-> @.count + 1, last_triggered |-> Stamp]]
       ELSE h

RECURSIVE trigger_interrupt(_, _, _, _)

\* a variant whose block handlers leave the status of a busy device alone
CallHandlerUnlessBusy(w, h, args, depth) ==
    LET d == h.driver
        busy == h.kind = "BLOQUE" /\ w.dcb[d].status = "OCUPADO"
        st(status) == IF busy THEN w.dcb[d].status ELSE status
    IN
    CASE h.method = "on_connect" ->
           [w |-> [w EXCEPT !.dcb[d].status = st("CONECTADO")], raised |-> FALSE]
      [] h.method = "on_disconnect" /\ h.kind = "BLOQUE" ->
           [w |-> [w EXCEPT !.dcb[d].status = st("DESCONECTADO")], raised |-> FALSE]
      [] h.method = "on_disconnect" /\ h.kind = "CARACTER" ->
           trigger_interrupt([w EXCEPT !.dcb[d].status = "DESCONECTADO"],
                             InterruptName(DeviceName(d), "DISCONNECT"),
                             <<>>, depth + 1)
      [] h.method = "on_error" ->
           [w |-> [w EXCEPT !.dcb[d].status = st("ERROR"),
                            !.dcb[d].error_count = @ + 1],
            raised |-> FALSE]
      [] h.method = "raises" -> [w |-> w, raised |-> TRUE]
      [] OTHER -> [w |-> w, raised |-> FALSE]

\* on_connect, on_disconnect, on_error and on_data_available of the two
\* drivers, and a callable that raises; the result says whether the handler
\* raised.
CallHandler(w, h, args, depth) ==
    LET d == h.driver IN
    CASE h.method = "on_connect" ->
           [w |-> [w EXCEPT !.dcb[d].status = "CONECTADO"], raised |-> FALSE]
      [] h.method = "on_disconnect" /\ h.kind = "BLOQUE" ->
           [w |-> [w EXCEPT !.dcb[d].status = "DESCONECTADO"], raised |-> FALSE]
      [] h.method = "on_disconnect" /\ h.kind = "CARACTER" ->
           trigger_interrupt([w EXCEPT !.dcb[d].status = "DESCONECTADO"],
                             InterruptName(DeviceName(d), "DISCONNECT"),
                             <<>>, depth + 1)
      [] h.method = "on_error" ->
           [w |-> [w EXCEPT !.dcb[d].status = "ERROR",
                            !.dcb[d].error_count = @ + 1],
            raised |-> FALSE]
      [] h.method = "raises" -> [w |-> w, raised |-> TRUE]
      [] OTHER -> [w |-> w, raised |-> FALSE]

\* a variant without the try/except around the handler: what the handler
\* raises leaves trigger_interrupt
trigger_interrupt_propagates(w, interrupt_type, args, depth) ==
    IF depth > MaxRecursion
    THEN [w |-> w, raised |-> TRUE]
    ELSE LET w1 == [w EXCEPT !.it = RecordInterrupt(@, interrupt_type, args)]
         IN IF interrupt_type \in DOMAIN w1.it.interrupt_handlers
            THEN CallHandler(w1, w1.it.interrupt_handlers[interrupt_type], args, depth)
            ELSE [w |-> w1, raised |-> FALSE]

\* InterruptTable.trigger_interrupt, called with `depth` calls of it already
\* on the stack.  Past MaxRecursion the interpreter raises RecursionError in
\* the call; an exception of the handler is caught and logged (lines 164-167).
trigger_interrupt(w, interrupt_type, args, depth) ==
    IF depth > MaxRecursion
    THEN [w |-> w, raised |-> TRUE]
    ELSE LET w1 == [w EXCEPT !.it = RecordInterrupt(@, interrupt_type, args)]
         IN IF interrupt_type \in DOMAIN w1.it.interrupt_handlers
            THEN [w |-> CallHandler(w1, w1.it.interrupt_handlers[interrupt_type],
                                    args, depth).w,
                  raised |-> FALSE]
            ELSE [w |-> w1, raised |-> FALSE]

\* ------------------------------------------------------------- DeviceDriver

\* a variant that leaves a failed request in progress
complete_operation_keeps_status(w, d, op, success) ==
    LET w1 == [w EXCEPT !.ops[op].completion_time = Stamp,
                        !.ops[op].status = IF success THEN "COMPLETADA" ELSE @]
        w2 == IF success
              THEN [w1 EXCEPT !.dcb[d].operations_completed = @ + 1,
                              !.dcb[d].bytes_transferred =
                                  @ + w.ops[op].data_size_mb * 512,
                              !.dcb[d].last_operation_time = Stamp]
              ELSE [w1 EXCEPT !.dcb[d].error_count = @ + 1]
        w3 == [w2 EXCEPT !.bm = release_buffer(@, op).bm]
    IN trigger_interrupt(w3, InterruptName(DeviceName(d), "OPERATION_COMPLETED"),
                         <<op, success>>, 0).w

\* a variant that does not release the request's buffer
complete_operation_no_release(w, d, op, success) ==
    LET w1 == [w EXCEPT !.ops[op].completion_time = Stamp,
                        !.ops[op].status =
                            IF success THEN "COMPLETADA" ELSE "FALLIDA"]
        w2 == IF success
              THEN [w1 EXCEPT !.dcb[d].operations_completed = @ + 1,
                              !.dcb[d].bytes_transferred =
                                  @ + w.ops[op].data_size_mb * 512,
                              !.dcb[d].last_operation_time = Stamp]
              ELSE [w1 EXCEPT !.dcb[d].error_count = @ + 1]
    IN trigger_interrupt(w2, InterruptName(DeviceName(d), "OPERATION_COMPLETED"),
                         <<op, success>>, 0).w

\* complete_operation, lines 236-249: the request, the counters and the
\* buffer; data_size_mb * 1024 * 1024 bytes is 512 bytes per half kilobyte
CompletionRecorded(w, d, op, success) ==
    LET w1 == [w EXCEPT !.ops[op].completion_time = Stamp,
                        !.ops[op].status =
                            IF success THEN "COMPLETADA" ELSE "FALLIDA"]
        w2 == IF success
              THEN [w1 EXCEPT !.dcb[d].operations_completed = @ + 1,
                              !.dcb[d].bytes_transferred =
                                  @ + w.ops[op].data_size_mb * 512,
                              !.dcb[d].last_operation_time = Stamp]
              ELSE [w1 EXCEPT !.dcb[d].error_count = @ + 1]
    IN [w2 EXCEPT !.bm = release_buffer(@, op).bm]

\* a variant that also counts a failed request as completed
complete_operation_counts_failures(w, d, op, success) ==
    LET w1 == [CompletionRecorded(w, d, op, success)
                  EXCEPT !.dcb[d].operations_completed =
                             IF success THEN @ ELSE @ + 1]
    IN trigger_interrupt(w1, InterruptName(DeviceName(d), "OPERATION_COMPLETED"),
                         <<op, success>>, 0).w

\* DeviceDriver.complete_operation
complete_operation(w, d, op, success) ==
    trigger_interrupt(CompletionRecorded(w, d, op, success),
                      InterruptName(DeviceName(d), "OPERATION_COMPLETED"),
                      <<op, success>>, 0).w

\* complete_operation ends by an exception: the one trigger_interrupt (its
\* last statement) lets through
complete_operation_raises(w, d, op, success) ==
    trigger_interrupt(CompletionRecorded(w, d, op, success),
                      InterruptName(DeviceName(d), "OPERATION_COMPLETED"),
                      <<op, success>>, 0).raised

\* DeviceDriver.perform_operation, line 221: the device accepts the request
Accepts(w, d) == w.dcb[d].status = "CONECTADO"

\* DeviceDriver.perform_operation, lines 226-230
MarkStarted(w, d, op) ==
    [w EXCEPT !.ops[op].start_time = Stamp,
              !.ops[op].status = "EN_PROGRESO",
              !.drv_history[d] = Append(@, op)]

\* a variant that marks the request before it looks at the device
PerformEntryMarksFirst(w, d, op) ==
    [ok |-> Accepts(w, d), w |-> MarkStarted(w, d, op)]

\* DeviceDriver.perform_operation as the two drivers call it (lines 219-232)
PerformEntry(w, d, op) ==
    IF Accepts(w, d)
    THEN [ok |-> TRUE, w |-> MarkStarted(w, d, op)]
    ELSE [ok |-> FALSE, w |-> w]

\* BlockDeviceDriver.perform_operation, lines 294-308, and
\* CharacterDeviceDriver.perform_operation, line 380: up to the first wait.
\* done says that perform_operation has returned (False).
PerformBegin(w, d, op) ==
    LET w1 == [w EXCEPT !.dcb[d].status = "OCUPADO"] IN
    IF DeviceType(d) = "BLOQUE"
    THEN LET a == allocate_buffer(w1.bm, w1.ops[op].data_size_mb, op) IN
         IF ~a.ok
         THEN [done |-> TRUE, w |-> complete_operation(w1, d, op, FALSE)]
         ELSE LET w2 == [w1 EXCEPT !.bm = a.bm] IN
              IF w2.ops[op].block_address # None
              THEN [done |-> FALSE,
                    w |-> [w2 EXCEPT !.dcb[d].current_position =
                                         w2.ops[op].block_address[1]]]
              ELSE [done |-> FALSE, w |-> w2]
    ELSE [done |-> FALSE, w |-> w1]

\* lines 334-338 and 407-412: the except branch
PerformFail(w, d, op) ==
    LET w1 == [complete_operation(w, d, op, FALSE) EXCEPT !.dcb[d].status = "ERROR"]
    IN IF DeviceType(d) = "CARACTER"
       THEN trigger_interrupt(w1, InterruptName(DeviceName(d), "ERROR"),
                              <<"error_code", "Error simulado">>, 0).w
       ELSE w1

\* lines 327-332 and 400-405: the transfer ended without a fault; an
\* exception out of complete_operation leads into the except branch
PerformSucceed(w, d, op) ==
    IF complete_operation_raises(w, d, op, TRUE)
    THEN PerformFail(complete_operation(w, d, op, TRUE), d, op)
    ELSE [complete_operation(w, d, op, TRUE) EXCEPT !.dcb[d].status = "CONECTADO"]

\* what perform_operation returns after the wait (lines 332, 338, 405, 412)
PerformReturn(w, d, op, fault) ==
    ~fault /\ ~complete_operation_raises(w, d, op, TRUE)

\* ------------------------------------------- queue.Queue, queue.PriorityQueue

\* a variant of IOOperation.__lt__ that compares the other way round
LtLowerFirst(o, a, b) == o[a].priority < o[b].priority

\* IOOperation.__lt__
Lt(o, a, b) == o[a].priority > o[b].priority

\* list positions count from 0, as in heapq
At(heap, pos) == heap[pos + 1]
SetAt(heap, pos, item) == [heap EXCEPT ![pos + 1] = item]

RECURSIVE SiftDownLoop(_, _, _, _, _)
SiftDownLoop(o, heap, startpos, pos, newitem) ==
    IF pos > startpos
    THEN LET parentpos == (pos - 1) \div 2
             parent == At(heap, parentpos)
         IN IF Lt(o, newitem, parent)
            THEN SiftDownLoop(o, SetAt(heap, pos, parent), startpos, parentpos, newitem)
            ELSE SetAt(heap, pos, newitem)
    ELSE SetAt(heap, pos, newitem)

\* heapq._siftdown
SiftDown(o, heap, startpos, pos) ==
    SiftDownLoop(o, heap, startpos, pos, At(heap, pos))

RECURSIVE SiftUpLoop(_, _, _, _, _, _)
SiftUpLoop(o, heap, startpos, pos, childpos, newitem) ==
    IF childpos < Len(heap)
    THEN LET rightpos == childpos + 1
             c == IF rightpos < Len(heap)
                     /\ ~Lt(o, At(heap, childpos), At(heap, rightpos))
                  THEN rightpos ELSE childpos
         IN SiftUpLoop(o, SetAt(heap, pos, At(heap, c)), startpos, c, 2 * c + 1, newitem)
    ELSE SiftDown(o, SetAt(heap, pos, newitem), startpos, pos)

\* heapq._siftup
SiftUp(o, heap, pos) == SiftUpLoop(o, heap, pos, pos, 2 * pos + 1, At(heap, pos))

\* heapq.heappush
HeapPush(o, heap, item) == SiftDown(o, Append(heap, item), 0, Len(heap))

\* heapq.heappop
HeapPop(o, heap) ==
    LET lastelt == heap[Len(heap)]
        rest == SubSeq(heap, 1, Len(heap) - 1)
    IN IF rest # <<>>
       THEN [item |-> rest[1], heap |-> SiftUp(o, [rest EXCEPT ![1] = lastelt], 0)]
       ELSE [item |-> lastelt, heap |-> rest]

\* Queue() and PriorityQueue()
NewQueue(kind) == [kind |-> kind, items |-> <<>>]

\* Queue.put / PriorityQueue.put (no maxsize: put never waits)
QPut(o, q, item) ==
    IF q.kind = "PriorityQueue"
    THEN [q EXCEPT !.items = HeapPush(o, @, item)]
    ELSE [q EXCEPT !.items = Append(@, item)]

\* Queue.get / PriorityQueue.get on a queue that is not empty
QGet(o, q) ==
    IF q.kind = "PriorityQueue"
    THEN LET r == HeapPop(o, q.items) IN [item |-> r.item, q |-> [q EXCEPT !.items = r.heap]]
    ELSE [item |-> Head(q.items), q |-> [q EXCEPT !.items = Tail(@)]]

\* a variant of get that takes the newest request
QGetNewest(o, q) ==
    [item |-> q.items[Len(q.items)],
     q |-> [q EXCEPT !.items = SubSeq(@, 1, Len(@) - 1)]]

\* Queue.empty
QEmpty(q) == q.items = <<>>

\* -------------------------------------------------------------- IOScheduler

Algorithms == {"FIFO", "PRIORIDAD", "TRABAJO_MAS_CORTO_PRIMERO", "ROUND_ROBIN"}

\* IOScheduler.__init__
IOScheduler(algorithm) == [algorithm |-> algorithm, operation_queues |-> EmptyMap]

\* the queue add_operation creates for a device that has none (lines 530-535)
QueueFor(algorithm) ==
    CASE algorithm = "FIFO" -> NewQueue("Queue")
      [] algorithm = "PRIORIDAD" -> NewQueue("PriorityQueue")
      [] OTHER -> NewQueue("Queue")

\* set_algorithm, lines 519-521: while not old_queue.empty():
\* new_queue.put(old_queue.get())
RECURSIVE Transfer(_, _, _)
Transfer(o, old_queue, new_queue) ==
    IF QEmpty(old_queue) THEN new_queue
    ELSE LET r == QGet(o, old_queue)
         IN Transfer(o, r.q, QPut(o, new_queue, r.item))

\* a variant of set_algorithm that gives every device a new, empty queue
set_algorithm_fresh_queues(s, o, algorithm) ==
    [algorithm |-> algorithm,
     operation_queues |-> [d \in DOMAIN s.operation_queues |-> QueueFor(algorithm)]]

\* IOScheduler.set_algorithm
set_algorithm(s, o, algorithm) ==
    [algorithm |-> algorithm,
     operation_queues |->
         [d \in DOMAIN s.operation_queues |->
             Transfer(o, s.operation_queues[d], QueueFor(algorithm))]]

\* IOScheduler.add_operation
add_operation(s, o, device_id, op) ==
    LET queues == IF device_id \notin DOMAIN s.operation_queues
                  THEN Put(s.operation_queues, device_id, QueueFor(s.algorithm))
                  ELSE s.operation_queues
    IN [s EXCEPT !.operation_queues =
            [queues EXCEPT ![device_id] = QPut(o, @, op)]]

\* while not queue.empty(): operations.append(queue.get())
RECURSIVE Drain(_, _)
Drain(o, q) ==
    IF QEmpty(q) THEN <<>>
    ELSE LET r == QGet(o, q) IN <<r.item>> \o Drain(o, r.q)

\* min(operations, key=lambda op: op.data_size_mb): the first of the smallest
RECURSIVE MinBySize(_, _)
MinBySize(o, operations) ==
    IF Len(operations) = 1 THEN operations[1]
    ELSE LET m == MinBySize(o, SubSeq(operations, 1, Len(operations) - 1))
             last == operations[Len(operations)]
         IN IF o[last].data_size_mb < o[m].data_size_mb THEN last ELSE m

\* a variant that puts the other requests back newest first
PutBackReversed(o, q, operations, shortest_op) ==
    LET rest == SelectSeq(operations, LAMBDA op : op # shortest_op)
    IN [q EXCEPT !.items = @ \o [i \in 1..Len(rest) |-> rest[Len(rest) + 1 - i]]]

\* for op in operations: if op != shortest_op: queue.put(op)
RECURSIVE PutBack(_, _, _, _)
PutBack(o, q, operations, shortest_op) ==
    IF operations = <<>> THEN q
    ELSE PutBack(o,
                 IF Head(operations) # shortest_op THEN QPut(o, q, Head(operations)) ELSE q,
                 Tail(operations), shortest_op)

\* a variant of the FIFO branch that leaves the request in the queue
GetFifoKeeps(s, o, device_id) ==
    [op |-> Head(s.operation_queues[device_id].items), s |-> s]

\* a variant of the FIFO branch that takes the newest request
GetFifoNewest(s, o, device_id) ==
    LET r == QGetNewest(o, s.operation_queues[device_id])
    IN [op |-> r.item, s |-> [s EXCEPT !.operation_queues[device_id] = r.q]]

\* get_next_operation, lines 547-548
GetFifo(s, o, device_id) ==
    LET r == QGet(o, s.operation_queues[device_id])
    IN [op |-> r.item, s |-> [s EXCEPT !.operation_queues[device_id] = r.q]]

\* get_next_operation, lines 549-550
GetPriority(s, o, device_id) ==
    LET r == QGet(o, s.operation_queues[device_id])
    IN [op |-> r.item, s |-> [s EXCEPT !.operation_queues[device_id] = r.q]]

\* a variant of the shortest-first branch that takes the head of the queue
GetShortestHead(s, o, device_id) ==
    LET r == QGet(o, s.operation_queues[device_id])
    IN [op |-> r.item, s |-> [s EXCEPT !.operation_queues[device_id] = r.q]]

\* get_next_operation, lines 551-570
GetShortest(s, o, device_id) ==
    LET queue == s.operation_queues[device_id]
        operations == Drain(o, queue)
        shortest_op == MinBySize(o, operations)
    IN [op |-> shortest_op,
        s |-> [s EXCEPT !.operation_queues[device_id] =
                  PutBack(o, [queue EXCEPT !.items = <<>>], operations, shortest_op)]]

\* a variant of the default branch that rotates: it takes the newest request
GetDefaultNewest(s, o, device_id) ==
    LET r == QGetNewest(o, s.operation_queues[device_id])
    IN [op |-> r.item, s |-> [s EXCEPT !.operation_queues[device_id] = r.q]]

\* get_next_operation, lines 571-573
GetDefault(s, o, device_id) ==
    LET r == QGet(o, s.operation_queues[device_id])
    IN [op |-> r.item, s |-> [s EXCEPT !.operation_queues[device_id] = r.q]]

\* IOScheduler.get_next_operation; op = 0 is None
get_next_operation(s, o, device_id) ==
    IF device_id \notin DOMAIN s.operation_queues
       \/ QEmpty(s.operation_queues[device_id])
    THEN [op |-> 0, s |-> s]
    ELSE CASE s.algorithm = "FIFO" -> GetFifo(s, o, device_id)
           [] s.algorithm = "PRIORIDAD" -> GetPriority(s, o, device_id)
           [] s.algorithm = "TRABAJO_MAS_CORTO_PRIMERO" -> GetShortest(s, o, device_id)
           [] OTHER -> GetDefault(s, o, device_id)

\* IOScheduler.get_queue_length
get_queue_length(s, device_id) ==
    IF device_id \notin DOMAIN s.operation_queues THEN 0
    ELSE Len(s.operation_queues[device_id].items)

\* ---------------------------------------------------------------- IOManager

\* IOManager.__init__ and start(): the thread is at the top of run's loop.
\* status_listeners holds the one listener the GUI subscribes.
IOManagerInit ==
    [running |-> TRUE,
     stats |-> [operations_processed |-> 0, operations_succeeded |-> 0,
                operations_failed |-> 0, total_data_mb |-> 0],
     operation_history |-> <<>>,
     status_listeners |-> <<"listener">>,
     pc |-> "top",
     todo |-> <<>>,
     device_id |-> 0,
     io_operation |-> 0,
     success |-> FALSE,
     fault |-> None]

\* a variant that adds the size of every request, failed ones included, to
\* total_data_mb
RecordOutcomeCountsAllData(m, o, device_id, op, success) ==
    [m EXCEPT
       !.stats = IF success
                 THEN [@ EXCEPT !.operations_succeeded = @ + 1,
                                !.total_data_mb = @ + o[op].data_size_mb]
                 ELSE [@ EXCEPT !.operations_failed = @ + 1,
                                !.total_data_mb = @ + o[op].data_size_mb],
       !.operation_history =
           Append(@, [operation_id |-> op, device_id |-> device_id,
                      status |-> o[op].status, success |-> success])]

\* a variant that drops the outcome once stop() has been called
RecordOutcomeWhileRunning(m, o, device_id, op, success) ==
    IF ~m.running THEN m
    ELSE [m EXCEPT
            !.stats = IF success
                      THEN [@ EXCEPT !.operations_succeeded = @ + 1,
                                     !.total_data_mb = @ + o[op].data_size_mb]
                      ELSE [@ EXCEPT !.operations_failed = @ + 1],
            !.operation_history =
                Append(@, [operation_id |-> op, device_id |-> device_id,
                           status |-> o[op].status, success |-> success])]

\* lines 626-655: the statistics, the record and the listeners
RecordOutcome(m, o, device_id, op, success) ==
    [m EXCEPT
       !.stats = IF success
                 THEN [@ EXCEPT !.operations_succeeded = @ + 1,
                                !.total_data_mb = @ + o[op].data_size_mb]
                 ELSE [@ EXCEPT !.operations_failed = @ + 1],
       !.operation_history =
           Append(@, [operation_id |-> op, device_id |-> device_id,
                      status |-> o[op].status, success |-> success])]

\* the calls one outcome makes on the listeners, in subscription order
Notifications(m, device_id, op, success) ==
    [i \in 1..Len(m.status_listeners) |->
        [listener |-> m.status_listeners[i], device_id |-> device_id,
         io_operation |-> op, success |-> success]]

\* a listener that raises an exception when it is called
Raises(listener) == listener = "raising"

\* a variant without the try/except around the call of a listener: the
\* first exception leaves the loop over the listeners
ListenersLoopUnguarded(m, device_id, op, success) ==
    LET all == Notifications(m, device_id, op, success)
        raising == {i \in 1..Len(all) : Raises(all[i].listener)}
    IN IF raising = {}
       THEN [calls |-> all, raised |-> FALSE]
       ELSE [calls |-> SubSeq(all, 1, CHOOSE i \in raising : \A j \in raising : i <= j),
             raised |-> TRUE]

\* lines 650-655: the loop over the listeners.  Each call is inside its own
\* try/except Exception, so every listener is called and no exception leaves
\* the loop.
ListenersLoop(m, device_id, op, success) ==
    [calls |-> Notifications(m, device_id, op, success), raised |-> FALSE]

\* a variant that divides by the number of requests taken from the scheduler
get_success_rate_of_processed(m) ==
    IF m.stats.operations_processed > 0
    THEN <<m.stats.operations_succeeded * 100, m.stats.operations_processed>>
    ELSE <<0, 1>>

\* IOManager.get_success_rate, as the fraction <<numerator, denominator>>
get_success_rate(m) ==
    LET total == m.stats.operations_succeeded + m.stats.operations_failed
    IN IF total > 0 THEN <<m.stats.operations_succeeded * 100, total>> ELSE <<0, 1>>

\* ------------------------------------------------- the system: initial state

NoCalls == [interrupts |-> 0, calls |-> 0]
NoLog == [d \in Devices |-> <<>>]
\* no thread is inside add_operation
NoSubmitters == <<>>

RECURSIVE RegisterAll(_, _)
RegisterAll(it, devs) ==
    IF devs = <<>> THEN it
    ELSE RegisterAll(RegisterDriverHandlers(it, Head(devs)), Tail(devs))

\* <NAME>_CONNECT triggered for each device in turn (GUI.py lines 534-536,
\* Driver_USB.py line 712)
RECURSIVE ConnectAll(_, _)
ConnectAll(w, devs) ==
    IF devs = <<>> THEN w
    ELSE ConnectAll(trigger_interrupt(w, InterruptName(DeviceName(Head(devs)), "CONNECT"),
                                      <<>>, 0).w,
                    Tail(devs))

\* the drivers created and registered, then connected
DevicesReady ==
    ConnectAll([ops |-> <<>>,
                dcb |-> [d \in Devices |-> DeviceControlBlock],
                drv_history |-> NoLog,
                bm |-> BufferManagerInit(PoolKb),
                it |-> RegisterAll(InterruptTableInit, DeviceList)],
               DeviceList)

\* The components as initialize_default_devices and test_core_functionality
\* set them up: a pool of 2048 KB, FIFO, the drivers created, registered and
\* connected, the dispatch thread started.
Init ==
    /\ buffer_manager = DevicesReady.bm
    /\ interrupt_table = DevicesReady.it
    /\ dcb = DevicesReady.dcb
    /\ drv_history = DevicesReady.drv_history
    /\ ops = DevicesReady.ops
    /\ io_scheduler = IOScheduler("FIFO")
    /\ sched_log = NoLog
    /\ fifo_scheduler = IOScheduler("FIFO")
    /\ fifo_returned = NoLog
    /\ io_manager = IOManagerInit
    /\ notified = <<>>
    /\ ret = 0
    /\ calls = NoCalls
    /\ submitters = NoSubmitters
    /\ table_calls = <<>>
    /\ driver_table = DefaultDrivers

\* what a step of a driver leaves of the world
SetWorld(w) ==
    /\ ops' = w.ops
    /\ dcb' = w.dcb
    /\ drv_history' = w.drv_history
    /\ buffer_manager' = w.bm
    /\ interrupt_table' = w.it

worldVars == <<ops, dcb, drv_history, buffer_manager, interrupt_table>>
schedVars == <<io_scheduler, sched_log>>
fifoVars == <<fifo_scheduler, fifo_returned>>
callerVars == <<submitters, table_calls, driver_table>>

\* ------------------------------------------------ the system: other threads

\* data sizes of the requests: 1 MB and half a KB, and the 10 MB of
\* test_core_functionality
Sizes == {MB(1) + 1, MB(10)}
Priorities == {5}
\* add_operation of the GUI gives a block address to a request for a block
\* device; test_core_functionality gives none
Addresses(d) == IF DeviceType(d) = "BLOQUE" THEN {None, Some(100)} ELSE {None}

\* IOManager.add_io_operation with a new IOOperation
Submit(d, size, prio, addr) ==
    /\ Len(ops) < MaxOps
    /\ LET op == Len(ops) + 1
           o == Append(ops, IOOperation(size, prio, addr))
       IN /\ ops' = o
          /\ io_scheduler' = add_operation(io_scheduler, o, d, op)
          /\ sched_log' = [sched_log EXCEPT ![d] = Append(@, <<"add", op>>)]
    /\ UNCHANGED <<dcb, drv_history, buffer_manager, interrupt_table, fifoVars, callerVars,
                   io_manager, notified, ret, calls>>

ExternalEvents == {"CONNECT", "DISCONNECT", "ERROR"}

\* the arguments connect_device, disconnect_device and simulate_device_error
\* trigger with (the random error code is read by no branch)
EventArgs(event) ==
    IF event = "ERROR" THEN <<"error_code", "Error simulado">> ELSE <<>>

\* interrupt_table.trigger_interrupt from another thread
Trigger(d, event) ==
    /\ calls.interrupts < MaxInterrupts
    /\ calls' = [calls EXCEPT !.interrupts = @ + 1]
    /\ SetWorld(trigger_interrupt(World, InterruptName(DeviceName(d), event),
                                  EventArgs(event), 0).w)
    /\ UNCHANGED <<schedVars, fifoVars, callerVars, io_manager, notified, ret>>

\* IOManager.stop
Stop ==
    /\ io_manager.running
    /\ io_manager' = [io_manager EXCEPT !.running = FALSE]
    /\ UNCHANGED <<worldVars, schedVars, fifoVars, callerVars, notified, ret, calls>>

\* ------------------------------------------- the system: the dispatch thread

\* line 605 and line 608: the loop test and the snapshot of the device ids;
\* when the loop ends the thread is over
LoopTop ==
    /\ io_manager.pc = "top"
    /\ io_manager' = IF io_manager.running
                     THEN [io_manager EXCEPT !.pc = "poll", !.todo = DeviceList]
                     ELSE [io_manager EXCEPT !.pc = "stopped"]
    /\ UNCHANGED <<worldVars, schedVars, fifoVars, callerVars, notified, ret, calls>>

\* a variant that skips no device
SkipsNone(t, w, device_id) == FALSE

\* lines 610-614: the loop skips the device when its driver is missing or its
\* status is OCUPADO
Skips(t, w, device_id) ==
    \/ get_driver(t, device_id) = None
    \/ w.dcb[get_driver(t, device_id)[1]].status = "OCUPADO"

\* lines 608-621 for the next device of the snapshot; after the last device
\* the thread sleeps and returns to the top
LoopPoll ==
    /\ io_manager.pc = "poll"
    /\ IF io_manager.todo = <<>>
       THEN /\ io_manager' = [io_manager EXCEPT !.pc = "top"]
            /\ UNCHANGED <<schedVars, ret>>
       ELSE LET d == Head(io_manager.todo)
                m == [io_manager EXCEPT !.todo = Tail(@)]
            IN IF Skips(driver_table, World, d)
               THEN /\ io_manager' = m
                    /\ UNCHANGED <<schedVars, ret>>
               ELSE LET r == get_next_operation(io_scheduler, ops, d)
                    IN /\ io_scheduler' = r.s
                       /\ UNCHANGED ret
                       /\ IF r.op # 0
                          THEN /\ io_manager' =
                                    [m EXCEPT !.stats.operations_processed = @ + 1,
                                              !.device_id = d,
                                              !.io_operation = r.op,
                                              !.fault = None,
                                              !.pc = "perform"]
                               /\ sched_log' = [sched_log EXCEPT ![d] =
                                                    Append(@, <<"get", r.op>>)]
                          ELSE /\ io_manager' = m
                               /\ UNCHANGED sched_log
    /\ UNCHANGED <<worldVars, fifoVars, callerVars, notified, calls>>

\* driver.perform_operation up to its first wait, or to its return when the
\* device does not accept the request or the buffer is refused
PerformStart ==
    /\ io_manager.pc = "perform"
    /\ LET d == io_manager.device_id
           op == io_manager.io_operation
           e == PerformEntry(World, d, op)
       IN IF ~e.ok
          THEN /\ SetWorld(e.w)
               /\ io_manager' = [io_manager EXCEPT !.success = FALSE, !.pc = "record"]
          ELSE LET b == PerformBegin(e.w, d, op)
               IN /\ SetWorld(b.w)
                  /\ io_manager' =
                       IF b.done
                       THEN [io_manager EXCEPT !.success = FALSE, !.pc = "record"]
                       ELSE [io_manager EXCEPT !.pc = "transfer"]
    /\ UNCHANGED <<schedVars, fifoVars, callerVars, notified, ret, calls>>

\* lines 318-322 and 391-395: the fault draw, then the wait it leads to
PerformDraw(fault) ==
    /\ io_manager.pc = "transfer"
    /\ io_manager' = [io_manager EXCEPT !.fault = Some(fault), !.pc = "finish"]
    /\ UNCHANGED <<worldVars, schedVars, fifoVars, callerVars, notified, ret, calls>>

\* the rest of perform_operation after the wait: the completion or the
\* except branch
PerformEnd ==
    /\ io_manager.pc = "finish"
    /\ LET d == io_manager.device_id
           op == io_manager.io_operation
           fault == io_manager.fault[1]
       IN /\ SetWorld(IF fault THEN PerformFail(World, d, op)
                               ELSE PerformSucceed(World, d, op))
          /\ io_manager' = [io_manager EXCEPT
                               !.success = PerformReturn(World, d, op, fault),
                               !.pc = "record"]
    /\ UNCHANGED <<schedVars, fifoVars, callerVars, notified, ret, calls>>

\* lines 626-655, then the next device; an exception that left the loop
\* over the listeners would end the iteration (lines 660-662)
LoopRecord ==
    /\ io_manager.pc = "record"
    /\ LET d == io_manager.device_id
           op == io_manager.io_operation
           r == ListenersLoop(io_manager, d, op, io_manager.success)
       IN /\ io_manager' = [RecordOutcome(io_manager, ops, d, op, io_manager.success)
                               EXCEPT !.pc = IF r.raised THEN "top" ELSE "poll"]
          /\ notified' = notified \o r.calls
    /\ UNCHANGED <<worldVars, schedVars, fifoVars, callerVars, ret, calls>>

Next ==
    \/ \E d \in Devices, size \in Sizes, prio \in Priorities :
          \E addr \in Addresses(d) : Submit(d, size, prio, addr)
    \/ \E d \in Devices, event \in ExternalEvents : Trigger(d, event)
    \/ Stop
    \/ LoopTop
    \/ LoopPoll
    \/ PerformStart
    \/ \E fault \in BOOLEAN : PerformDraw(fault)
    \/ PerformEnd
    \/ LoopRecord

Spec == Init /\ [][Next]_vars

\* --------------------------------------------- the buffer manager on its own

\* pool sizes: an empty pool, a pool of 3 KB, the default and the GUI's
BufCapacities == {0, 3, DefaultPoolKb, PoolKb}
\* data sizes in half kilobytes: 0, 0.5 KB, 1.5 KB, 2 KB, 1 MB, 2 MB
BufSizes == {0, 1, 3, 4, MB(1), MB(2)}
BufRequestIds == {1, 2}

InitBuf ==
    /\ buffer_manager \in {BufferManagerInit(c) : c \in BufCapacities}
    /\ interrupt_table = InterruptTableInit
    /\ dcb = [d \in Devices |-> DeviceControlBlock]
    /\ drv_history = NoLog
    /\ ops = <<>>
    /\ io_scheduler = IOScheduler("FIFO")
    /\ sched_log = NoLog
    /\ fifo_scheduler = IOScheduler("FIFO")
    /\ fifo_returned = NoLog
    /\ io_manager = IOManagerInit
    /\ notified = <<>>
    /\ ret = FALSE
    /\ calls = NoCalls
    /\ submitters = NoSubmitters
    /\ table_calls = <<>>
    /\ driver_table = DeviceDriverTable

bufFrame == <<interrupt_table, dcb, drv_history, ops, schedVars, fifoVars, callerVars,
              io_manager, notified>>

\* buffer_manager.allocate_buffer(size_mb, operation_id)
BufAllocate(size_mb, operation_id) ==
    /\ calls.calls < MaxCalls
    /\ calls' = [calls EXCEPT !.calls = @ + 1]
    /\ LET r == allocate_buffer(buffer_manager, size_mb, operation_id)
       IN buffer_manager' = r.bm /\ ret' = r.ok
    /\ UNCHANGED bufFrame

\* buffer_manager.release_buffer(operation_id)
BufRelease(operation_id) ==
    /\ calls.calls < MaxCalls
    /\ calls' = [calls EXCEPT !.calls = @ + 1]
    /\ LET r == release_buffer(buffer_manager, operation_id)
       IN buffer_manager' = r.bm /\ ret' = r.ok
    /\ UNCHANGED bufFrame

NextBuf ==
    \/ \E size_mb \in BufSizes, id \in BufRequestIds : BufAllocate(size_mb, id)
    \/ \E id \in BufRequestIds : BufRelease(id)

SpecBuf == InitBuf /\ [][NextBuf]_vars

\* ------------------------------------------------- the scheduler on its own

\* Requests queued in one behaviour of the scheduler on its own.
MaxQueued == 3

\* <<data size, priority>> of the requests
RequestShapes == {<<MB(50), 0>>, <<MB(5), 5>>, <<MB(20), 10>>, <<MB(5), 10>>}

\* io_scheduler is constructed with any policy; fifo_scheduler with FIFO
InitSched ==
    /\ buffer_manager = BufferManagerInit(PoolKb)
    /\ interrupt_table = InterruptTableInit
    /\ dcb = [d \in Devices |-> DeviceControlBlock]
    /\ drv_history = NoLog
    /\ ops = <<>>
    /\ io_scheduler \in {IOScheduler(a) : a \in Algorithms}
    /\ sched_log = NoLog
    /\ fifo_scheduler = IOScheduler("FIFO")
    /\ fifo_returned = NoLog
    /\ io_manager = IOManagerInit
    /\ notified = <<>>
    /\ ret = [io |-> 0, fifo |-> 0]
    /\ calls = NoCalls
    /\ submitters = NoSubmitters
    /\ table_calls = <<>>
    /\ driver_table = DeviceDriverTable

schedFrame == <<buffer_manager, interrupt_table, dcb, drv_history, io_manager, callerVars,
                notified, calls>>

\* add_operation(device_id, IOOperation(...)) on both schedulers
SchedAdd(d, shape) ==
    /\ Len(ops) < MaxQueued
    /\ LET op == Len(ops) + 1
           o == Append(ops, IOOperation(shape[1], shape[2], None))
       IN /\ ops' = o
          /\ io_scheduler' = add_operation(io_scheduler, o, d, op)
          /\ fifo_scheduler' = add_operation(fifo_scheduler, o, d, op)
          /\ sched_log' = [sched_log EXCEPT ![d] = Append(@, <<"add", op>>)]
    /\ UNCHANGED <<fifo_returned, ret, schedFrame>>

\* get_next_operation(device_id) on both schedulers
SchedGet(d) ==
    /\ LET r == get_next_operation(io_scheduler, ops, d)
           f == get_next_operation(fifo_scheduler, ops, d)
       IN /\ io_scheduler' = r.s
          /\ fifo_scheduler' = f.s
          /\ ret' = [io |-> r.op, fifo |-> f.op]
          /\ sched_log' = IF r.op # 0
                          THEN [sched_log EXCEPT ![d] = Append(@, <<"get", r.op>>)]
                          ELSE sched_log
          /\ fifo_returned' = IF f.op # 0
                              THEN [fifo_returned EXCEPT ![d] = Append(@, f.op)]
                              ELSE fifo_returned
    /\ UNCHANGED <<ops, schedFrame>>

NextSched ==
    \/ \E d \in Devices, shape \in RequestShapes : SchedAdd(d, shape)
    \/ \E d \in Devices : SchedGet(d)

SpecSched == InitSched /\ [][NextSched]_vars

\* ------------------------------------- the scheduler with changes of policy

\* Calls of set_algorithm in one behaviour.
MaxSwitches == 1

\* <<data size, priority>> of the requests: the larger one has the higher
\* priority
AlgShapes == {<<MB(5), 5>>, <<MB(20), 10>>}

\* io_scheduler.set_algorithm(algorithm), with no other call under way
SchedSetAlgorithm(algorithm) ==
    /\ calls.calls < MaxSwitches
    /\ calls' = [calls EXCEPT !.calls = @ + 1]
    /\ io_scheduler' = set_algorithm(io_scheduler, ops, algorithm)
    /\ UNCHANGED <<ops, sched_log, fifoVars, ret, buffer_manager, interrupt_table,
                   dcb, drv_history, io_manager, notified, callerVars>>

NextAlg ==
    \/ \E d \in Devices, shape \in AlgShapes : SchedAdd(d, shape)
    \/ \E d \in Devices : SchedGet(d)
    \/ \E algorithm \in Algorithms : SchedSetAlgorithm(algorithm)

SpecAlg == InitSched /\ [][NextAlg]_vars

\* ---------------------------- the scheduler with concurrent add_operation

\* the threads that call add_operation
SubmitterThreads == {1, 2}

\* A thread calls add_operation(device_id, IOOperation(...)) and evaluates
\* line 528, `device_id not in self.operation_queues`
RaceEnter(t, d, shape) ==
    /\ t \notin DOMAIN submitters
    /\ Len(ops) < MaxQueued
    /\ ops' = Append(ops, IOOperation(shape[1], shape[2], None))
    /\ submitters' = Put(submitters, t,
                         [pc |-> IF d \in DOMAIN io_scheduler.operation_queues
                                 THEN "put" ELSE "create",
                          device_id |-> d,
                          io_operation |-> Len(ops) + 1])
    /\ UNCHANGED <<schedVars, fifoVars, ret, table_calls, driver_table,
                   buffer_manager,
                   interrupt_table, dcb, drv_history, io_manager, notified, calls>>

\* lines 529-535: self.operation_queues[device_id] = Queue() or
\* PriorityQueue(), whatever the dictionary holds by now
RaceCreate(t) ==
    /\ t \in DOMAIN submitters
    /\ submitters[t].pc = "create"
    /\ io_scheduler' = [io_scheduler EXCEPT !.operation_queues =
                            Put(@, submitters[t].device_id, QueueFor(io_scheduler.algorithm))]
    /\ submitters' = [submitters EXCEPT ![t].pc = "put"]
    /\ UNCHANGED <<ops, sched_log, fifoVars, ret, table_calls, driver_table,
                   buffer_manager,
                   interrupt_table, dcb, drv_history, io_manager, notified, calls>>

\* line 537: self.operation_queues[device_id].put(io_operation); then
\* add_operation returns
RacePut(t) ==
    /\ t \in DOMAIN submitters
    /\ submitters[t].pc = "put"
    /\ LET d == submitters[t].device_id
           op == submitters[t].io_operation
       IN /\ io_scheduler' = [io_scheduler EXCEPT !.operation_queues[d] = QPut(ops, @, op)]
          /\ sched_log' = [sched_log EXCEPT ![d] = Append(@, <<"add", op>>)]
    /\ submitters' = Del(submitters, t)
    /\ UNCHANGED <<ops, fifoVars, ret, table_calls, driver_table,
                   buffer_manager,
                   interrupt_table, dcb, drv_history, io_manager, notified, calls>>

\* the dispatch thread's get_next_operation(device_id), between two steps of
\* the submitters
RaceGet(d) ==
    /\ LET r == get_next_operation(io_scheduler, ops, d)
       IN /\ io_scheduler' = r.s
          /\ ret' = [ret EXCEPT !.io = r.op]
          /\ sched_log' = IF r.op # 0
                          THEN [sched_log EXCEPT ![d] = Append(@, <<"get", r.op>>)]
                          ELSE sched_log
    /\ UNCHANGED <<ops, fifoVars, callerVars, buffer_manager, interrupt_table, dcb,
                   drv_history, io_manager, notified, calls>>

NextRace ==
    \/ \E t \in SubmitterThreads, d \in Devices, shape \in AlgShapes : RaceEnter(t, d, shape)
    \/ \E t \in SubmitterThreads : RaceCreate(t)
    \/ \E t \in SubmitterThreads : RacePut(t)
    \/ \E d \in Devices : RaceGet(d)

SpecRace == InitSched /\ [][NextRace]_vars

\* ------------------------------------------ the interrupt table on its own

\* Drivers constructed and callables registered in one behaviour.
MaxRegistrations == 2
\* perform_operation calls in one behaviour of the interrupt table.
MaxPerforms == 1

\* the events of a device: the driver's own, and the completion interrupt
TableEvents == {"CONNECT", "DISCONNECT", "ERROR", "DATA_AVAILABLE", "OPERATION_COMPLETED"}
\* the interrupt types triggered and the one a raising callable is
\* registered for
TableTypes == {InterruptName(DeviceName(1), event) : event \in TableEvents}
RaisingTypes == {InterruptName(DeviceName(1), "OPERATION_COMPLETED")}

\* the drivers asked to perform a request: a block and a character device
PerformDrivers == {1, 4}

\* an entry of table_calls
TableCall(call, interrupt_type, handler) ==
    [call |-> call, interrupt_type |-> interrupt_type, handler |-> handler]

\* the drivers whose __init__ has run
Constructed ==
    {d \in TableDrivers : \E i \in 1..Len(table_calls) :
        table_calls[i].call = "register" /\ table_calls[i].handler.driver = d}

\* No driver constructed yet, an empty interrupt table, no request.  The
\* table is driven first (ops = <<>>); the requests are performed after.
InitTable ==
    /\ buffer_manager = BufferManagerInit(PoolKb)
    /\ interrupt_table = InterruptTableInit
    /\ dcb = [d \in AllDrivers |-> DeviceControlBlock]
    /\ drv_history = [d \in AllDrivers |-> <<>>]
    /\ ops = <<>>
    /\ io_scheduler = IOScheduler("FIFO")
    /\ sched_log = NoLog
    /\ fifo_scheduler = IOScheduler("FIFO")
    /\ fifo_returned = NoLog
    /\ io_manager = IOManagerInit
    /\ notified = <<>>
    /\ ret = [raised |-> FALSE, result |-> FALSE, fault |-> FALSE]
    /\ calls = NoCalls
    /\ submitters = NoSubmitters
    /\ table_calls = <<>>
    /\ driver_table = DeviceDriverTable

tableFrame == <<schedVars, fifoVars, io_manager, notified, submitters, driver_table>>

\* BlockDeviceDriver(dcb, interrupt_table, buffer_manager) or
\* CharacterDeviceDriver(...): the three registrations of __init__
TableCreateDriver(d) ==
    /\ calls.calls < MaxRegistrations
    /\ ops = <<>>
    /\ d \notin Constructed
    /\ calls' = [calls EXCEPT !.calls = @ + 1]
    /\ interrupt_table' = RegisterDriverHandlers(interrupt_table, d)
    /\ table_calls' = table_calls \o
           [i \in 1..3 |-> TableCall("register", DriverRegistrations(d)[i][1],
                                     DriverRegistrations(d)[i][2])]
    /\ UNCHANGED <<ops, dcb, drv_history, buffer_manager, ret, tableFrame>>

\* register_interrupt_handler(interrupt_type, a callable that raises)
TableRegister(interrupt_type) ==
    /\ calls.calls < MaxRegistrations
    /\ ops = <<>>
    /\ calls' = [calls EXCEPT !.calls = @ + 1]
    /\ interrupt_table' =
           register_interrupt_handler(interrupt_table, interrupt_type, RaisingHandler)
    /\ table_calls' = Append(table_calls,
                             TableCall("register", interrupt_type, RaisingHandler))
    /\ UNCHANGED <<ops, dcb, drv_history, buffer_manager, ret, tableFrame>>

\* interrupt_table.trigger_interrupt(interrupt_type), called from outside
\* any handler
TableTrigger(interrupt_type) ==
    /\ calls.interrupts < MaxInterrupts
    /\ ops = <<>>
    /\ calls' = [calls EXCEPT !.interrupts = @ + 1]
    /\ LET r == trigger_interrupt(World, interrupt_type, <<>>, 0)
       IN /\ SetWorld(r.w)
          /\ ret' = [ret EXCEPT !.raised = r.raised]
    /\ table_calls' = Append(table_calls, TableCall("trigger", interrupt_type, None))
    /\ UNCHANGED tableFrame

\* driver.perform_operation(IOOperation(1 MB)) from its call to its return,
\* with the outcome of the fault draw
TablePerform(d, fault) ==
    /\ d \in Constructed
    /\ Len(ops) < MaxPerforms
    /\ LET op == Len(ops) + 1
           w == [World EXCEPT !.ops = Append(@, IOOperation(MB(1), 5, None))]
           e == PerformEntry(w, d, op)
           b == PerformBegin(e.w, d, op)
       IN IF ~e.ok
          THEN SetWorld(e.w) /\ ret' = [raised |-> FALSE, result |-> FALSE, fault |-> fault]
          ELSE IF b.done
          THEN SetWorld(b.w) /\ ret' = [raised |-> FALSE, result |-> FALSE, fault |-> fault]
          ELSE /\ SetWorld(IF fault THEN PerformFail(b.w, d, op)
                                    ELSE PerformSucceed(b.w, d, op))
               /\ ret' = [raised |-> FALSE,
                          result |-> PerformReturn(b.w, d, op, fault),
                          fault |-> fault]
    /\ table_calls' = Append(table_calls, TableCall("perform", <<>>, Handler(d, "perform_operation")))
    /\ UNCHANGED <<calls, tableFrame>>

NextTable ==
    \/ \E d \in TableDrivers : TableCreateDriver(d)
    \/ \E interrupt_type \in RaisingTypes : TableRegister(interrupt_type)
    \/ \E interrupt_type \in TableTypes : TableTrigger(interrupt_type)
    \/ \E d \in PerformDrivers, fault \in BOOLEAN : TablePerform(d, fault)

SpecTable == InitTable /\ [][NextTable]_vars

\* ------------------------------------------- the dispatch loop's listeners

\* Listeners subscribed in one behaviour.
MaxListeners == 2

\* the callables subscribed: two that return and one that raises
Listeners == {"listener", "second", "raising"}

\* the data size of the requests submitted here
ListenSizes == {MB(1) + 1}

\* As Init, but with no listener subscribed yet (IOManager.__init__, line
\* 599).
InitListen ==
    /\ buffer_manager = DevicesReady.bm
    /\ interrupt_table = DevicesReady.it
    /\ dcb = DevicesReady.dcb
    /\ drv_history = DevicesReady.drv_history
    /\ ops = DevicesReady.ops
    /\ io_scheduler = IOScheduler("FIFO")
    /\ sched_log = NoLog
    /\ fifo_scheduler = IOScheduler("FIFO")
    /\ fifo_returned = NoLog
    /\ io_manager = [IOManagerInit EXCEPT !.status_listeners = <<>>]
    /\ notified = <<>>
    /\ ret = 0
    /\ calls = NoCalls
    /\ submitters = NoSubmitters
    /\ table_calls = <<>>
    /\ driver_table = DefaultDrivers

\* IOManager.add_status_listener, from another thread
Subscribe(listener) ==
    /\ Len(io_manager.status_listeners) < MaxListeners
    /\ io_manager' = [io_manager EXCEPT !.status_listeners = Append(@, listener)]
    /\ UNCHANGED <<worldVars, schedVars, fifoVars, callerVars, notified, ret, calls>>

NextListen ==
    \/ \E listener \in Listeners : Subscribe(listener)
    \/ \E d \in Devices, size \in ListenSizes, prio \in Priorities :
          Submit(d, size, prio, None)
    \/ LoopTop
    \/ LoopPoll
    \/ PerformStart
    \/ \E fault \in BOOLEAN : PerformDraw(fault)
    \/ PerformEnd
    \/ LoopRecord

SpecListen == InitListen /\ [][NextListen]_vars

\* ------------------------------------ the dispatch loop with exceptions

\* Exceptions raised inside iterations of the loop in one behaviour.
MaxFaults == 1

\* a variant in which the exception ends run, and with it the thread
LoopFaultUncaught(m) == [m EXCEPT !.pc = "stopped"]

\* lines 660-662: the except clause of the iteration logs, sleeps and lets
\* the while loop go on; the rest of the for loop is abandoned
LoopFaultCaught(m) == [m EXCEPT !.pc = "top", !.todo = <<>>]

\* where an exception can leave the body of the iteration: in the scheduler
\* call ("poll"), at the entry of the driver before its own try ("perform"),
\* in the bookkeeping after the driver returned ("record")
FaultPoints == {"poll", "perform", "record"}

InitLive ==
    /\ buffer_manager = DevicesReady.bm
    /\ interrupt_table = DevicesReady.it
    /\ dcb = DevicesReady.dcb
    /\ drv_history = DevicesReady.drv_history
    /\ ops = DevicesReady.ops
    /\ io_scheduler = IOScheduler("FIFO")
    /\ sched_log = NoLog
    /\ fifo_scheduler = IOScheduler("FIFO")
    /\ fifo_returned = NoLog
    /\ io_manager = IOManagerInit
    /\ notified = <<>>
    /\ ret = None
    /\ calls = NoCalls
    /\ submitters = NoSubmitters
    /\ table_calls = <<>>
    /\ driver_table = DefaultDrivers

\* an exception of class Exception is raised inside the try of the iteration
LoopRaise ==
    /\ calls.calls < MaxFaults
    /\ io_manager.pc \in FaultPoints
    /\ calls' = [calls EXCEPT !.calls = @ + 1]
    /\ io_manager' = LoopFaultCaught(io_manager)
    /\ ret' = Some(Len(ops))
    /\ UNCHANGED <<worldVars, schedVars, fifoVars, callerVars, notified>>

\* the steps of the dispatch thread
DispatchStep ==
    \/ LoopTop
    \/ LoopPoll
    \/ PerformStart
    \/ \E fault \in BOOLEAN : PerformDraw(fault)
    \/ PerformEnd
    \/ LoopRecord

NextLive ==
    \/ \E d \in Devices, size \in ListenSizes, prio \in Priorities :
          Submit(d, size, prio, None)
    \/ Stop
    \/ LoopRaise
    \/ DispatchStep

\* the dispatch thread is a thread of its own and its sleeps end: it takes
\* its next step eventually
SpecLive == InitLive /\ [][NextLive]_vars /\ WF_vars(DispatchStep)

\* ------------------------------------------- the dispatch loop and stop()

InitStop == InitLive

\* IOManager.stop, called from another thread; ret notes where the dispatch
\* thread was and which request it had at the call
StopAt ==
    /\ io_manager.running
    /\ io_manager' = [io_manager EXCEPT !.running = FALSE]
    /\ ret' = Some([pc |-> io_manager.pc, io_operation |-> io_manager.io_operation])
    /\ UNCHANGED <<worldVars, schedVars, fifoVars, callerVars, notified, calls>>

NextStop ==
    \/ \E d \in Devices, size \in ListenSizes, prio \in Priorities :
          Submit(d, size, prio, None)
    \/ StopAt
    \/ DispatchStep

SpecStop == InitStop /\ [][NextStop]_vars /\ WF_vars(DispatchStep)

\* ------------------------------ the components called with any identifier

\* Calls in one behaviour of the components called with any identifier.
MaxIdCalls == 4

\* device ids: the two devices and one that is never registered or queued
AnyDevices == Devices \cup {3}
\* request ids: two that are allocated at times and one that never is
AnyRequests == BufRequestIds \cup {3}

\* a call, its argument and what it returned
IdCall(call, id, result) == [call |-> call, id |-> id, result |-> result]

\* the three components as constructed, the scheduler with any policy
InitIds ==
    /\ buffer_manager = BufferManagerInit(PoolKb)
    /\ interrupt_table = InterruptTableInit
    /\ dcb = [d \in Devices |-> DeviceControlBlock]
    /\ drv_history = NoLog
    /\ ops = <<>>
    /\ io_scheduler \in {IOScheduler(a) : a \in Algorithms}
    /\ sched_log = NoLog
    /\ fifo_scheduler = IOScheduler("FIFO")
    /\ fifo_returned = NoLog
    /\ io_manager = IOManagerInit
    /\ notified = <<>>
    /\ ret = IdCall("none", 0, 0)
    /\ calls = NoCalls
    /\ submitters = NoSubmitters
    /\ table_calls = <<>>
    /\ driver_table = DeviceDriverTable

idFrame == <<interrupt_table, dcb, drv_history, fifoVars, io_manager, notified,
             submitters, table_calls>>

\* one more call
Called ==
    /\ calls.calls < MaxIdCalls
    /\ calls' = [calls EXCEPT !.calls = @ + 1]

\* driver_table.register_driver(device_id, driver)
IdRegisterDriver(d) ==
    /\ Called
    /\ driver_table' = register_driver(driver_table, d, d)
    /\ ret' = IdCall("register_driver", d, None)
    /\ UNCHANGED <<buffer_manager, ops, schedVars, idFrame>>

\* driver_table.get_driver(device_id)
IdGetDriver(d) ==
    /\ Called
    /\ ret' = IdCall("get_driver", d, get_driver(driver_table, d))
    /\ UNCHANGED <<driver_table, buffer_manager, ops, schedVars, idFrame>>

\* driver_table.unregister_driver(device_id)
IdUnregisterDriver(d) ==
    /\ Called
    /\ LET r == unregister_driver(driver_table, d)
       IN driver_table' = r.t /\ ret' = IdCall("unregister_driver", d, r.ok)
    /\ UNCHANGED <<buffer_manager, ops, schedVars, idFrame>>

\* buffer_manager.allocate_buffer(1 MB, operation_id)
IdAllocate(operation_id) ==
    /\ Called
    /\ LET r == allocate_buffer(buffer_manager, MB(1), operation_id)
       IN buffer_manager' = r.bm /\ ret' = IdCall("allocate_buffer", operation_id, r.ok)
    /\ UNCHANGED <<driver_table, ops, schedVars, idFrame>>

\* buffer_manager.release_buffer(operation_id)
IdRelease(operation_id) ==
    /\ Called
    /\ LET r == release_buffer(buffer_manager, operation_id)
       IN buffer_manager' = r.bm /\ ret' = IdCall("release_buffer", operation_id, r.ok)
    /\ UNCHANGED <<driver_table, ops, schedVars, idFrame>>

\* io_scheduler.add_operation(device_id, IOOperation(5 MB))
IdAddOperation(d) ==
    /\ Called
    /\ LET op == Len(ops) + 1
           o == Append(ops, IOOperation(MB(5), 5, None))
       IN /\ ops' = o
          /\ io_scheduler' = add_operation(io_scheduler, o, d, op)
          /\ sched_log' = [sched_log EXCEPT ![d] = Append(@, <<"add", op>>)]
    /\ ret' = IdCall("add_operation", d, None)
    /\ UNCHANGED <<driver_table, buffer_manager, idFrame>>

\* io_scheduler.get_next_operation(device_id); 0 stands for None
IdGetNext(d) ==
    /\ Called
    /\ LET r == get_next_operation(io_scheduler, ops, d)
       IN /\ io_scheduler' = r.s
          /\ ret' = IdCall("get_next_operation", d, r.op)
          /\ sched_log' = IF r.op # 0
                          THEN [sched_log EXCEPT ![d] = Append(@, <<"get", r.op>>)]
                          ELSE sched_log
    /\ UNCHANGED <<driver_table, buffer_manager, ops, idFrame>>

\* io_scheduler.get_queue_length(device_id)
IdQueueLength(d) ==
    /\ Called
    /\ ret' = IdCall("get_queue_length", d, get_queue_length(io_scheduler, d))
    /\ UNCHANGED <<driver_table, buffer_manager, ops, schedVars, idFrame>>

NextIds ==
    \/ \E d \in Devices : IdRegisterDriver(d)
    \/ \E d \in AnyDevices : IdGetDriver(d)
    \/ \E d \in AnyDevices : IdUnregisterDriver(d)
    \/ \E id \in BufRequestIds : IdAllocate(id)
    \/ \E id \in AnyRequests : IdRelease(id)
    \/ \E d \in Devices : IdAddOperation(d)
    \/ \E d \in AnyDevices : IdGetNext(d)
    \/ \E d \in AnyDevices : IdQueueLength(d)

SpecIds == InitIds /\ [][NextIds]_vars

\* ------------------------- the dispatch loop, the driver's entry in two steps

\* line 221 of DeviceDriver.perform_operation: the test of the device status.
\* Another thread can run before the request is marked.
AcceptTest ==
    /\ io_manager.pc = "perform"
    /\ io_manager' = IF Accepts(World, io_manager.device_id)
                     THEN [io_manager EXCEPT !.pc = "mark"]
                     ELSE [io_manager EXCEPT !.success = FALSE, !.pc = "record"]
    /\ UNCHANGED <<worldVars, schedVars, fifoVars, callerVars, notified, ret, calls>>

\* lines 226-230, then the driver up to its first wait or to its return when
\* the buffer is refused
AcceptMark ==
    /\ io_manager.pc = "mark"
    /\ LET d == io_manager.device_id
           op == io_manager.io_operation
           b == PerformBegin(MarkStarted(World, d, op), d, op)
       IN /\ SetWorld(b.w)
          /\ io_manager' =
               IF b.done
               THEN [io_manager EXCEPT !.success = FALSE, !.pc = "record"]
               ELSE [io_manager EXCEPT !.pc = "transfer"]
    /\ UNCHANGED <<schedVars, fifoVars, callerVars, notified, ret, calls>>

NextAccept ==
    \/ \E d \in Devices, size \in ListenSizes, prio \in Priorities :
          Submit(d, size, prio, None)
    \/ \E d \in Devices, event \in ExternalEvents : Trigger(d, event)
    \/ LoopTop
    \/ LoopPoll
    \/ AcceptTest
    \/ AcceptMark
    \/ \E fault \in BOOLEAN : PerformDraw(fault)
    \/ PerformEnd
    \/ LoopRecord

SpecAccept == Init /\ [][NextAccept]_vars

\* --------------------------------------- the GUI's devices added and removed

\* Devices added or removed in one behaviour of the GUI.
MaxGuiCalls == 4

\* the device ids the GUI can compute, and the drivers it can create
GuiDeviceIds == 1..(Cardinality(Devices) + MaxGuiCalls)
GuiDrivers ==
    Devices \cup {BlockDriver(id) : id \in GuiDeviceIds}
            \cup {CharacterDriver(id) : id \in GuiDeviceIds}

\* The GUI after initialize_default_devices; the drivers not created yet
\* have a fresh device control block.
InitGui ==
    /\ buffer_manager = DevicesReady.bm
    /\ interrupt_table = DevicesReady.it
    /\ dcb = [d \in GuiDrivers |->
                 IF d \in Devices THEN DevicesReady.dcb[d] ELSE DeviceControlBlock]
    /\ drv_history = [d \in GuiDrivers |-> <<>>]
    /\ ops = DevicesReady.ops
    /\ io_scheduler = IOScheduler("FIFO")
    /\ sched_log = NoLog
    /\ fifo_scheduler = IOScheduler("FIFO")
    /\ fifo_returned = NoLog
    /\ io_manager = IOManagerInit
    /\ notified = <<>>
    /\ ret = IdCall("none", 0, 0)
    /\ calls = NoCalls
    /\ submitters = NoSubmitters
    /\ table_calls = <<>>
    /\ driver_table = DefaultDrivers

guiFrame == <<schedVars, fifoVars, io_manager, notified, submitters, table_calls>>

\* add_block_device / add_character_device: the id is the number of
\* registered drivers plus one; a new control block and driver (its
\* __init__ registers the handlers), register_driver, the CONNECT interrupt
GuiAddDevice(driver_of) ==
    /\ calls.calls < MaxGuiCalls
    /\ calls' = [calls EXCEPT !.calls = @ + 1]
    /\ LET device_id == Cardinality(DOMAIN get_all_drivers(driver_table)) + 1
           d == driver_of[device_id]
           w == [World EXCEPT !.dcb[d] = DeviceControlBlock,
                              !.drv_history[d] = <<>>,
                              !.it = RegisterDriverHandlers(@, d)]
       IN /\ driver_table' = register_driver(driver_table, device_id, d)
          /\ SetWorld(trigger_interrupt(w, InterruptName(DeviceName(d), "CONNECT"),
                                        <<>>, 0).w)
          /\ ret' = IdCall("add_device", device_id, d)
    /\ UNCHANGED guiFrame

\* remove_selected_device for a device listed in the tree: the DISCONNECT
\* interrupt of its name, then unregister_driver
GuiRemoveDevice(device_id) ==
    /\ calls.calls < MaxGuiCalls
    /\ get_driver(driver_table, device_id) # None
    /\ calls' = [calls EXCEPT !.calls = @ + 1]
    /\ LET d == get_driver(driver_table, device_id)[1]
       IN SetWorld(trigger_interrupt(World, InterruptName(DeviceName(d), "DISCONNECT"),
                                     <<>>, 0).w)
    /\ driver_table' = unregister_driver(driver_table, device_id).t
    /\ ret' = IdCall("remove_device", device_id, None)
    /\ UNCHANGED guiFrame

NextGui ==
    \/ GuiAddDevice([id \in GuiDeviceIds |-> BlockDriver(id)])
    \/ GuiAddDevice([id \in GuiDeviceIds |-> CharacterDriver(id)])
    \/ \E device_id \in GuiDeviceIds : GuiRemoveDevice(device_id)

SpecGui == InitGui /\ [][NextGui]_vars

\* ------------------------------- the dispatch loop left to run undisturbed

\* As Init; ret is the set of the requests submitted while their device
\* was connected.
InitProgress ==
    /\ buffer_manager = DevicesReady.bm
    /\ interrupt_table = DevicesReady.it
    /\ dcb = DevicesReady.dcb
    /\ drv_history = DevicesReady.drv_history
    /\ ops = DevicesReady.ops
    /\ io_scheduler = IOScheduler("FIFO")
    /\ sched_log = NoLog
    /\ fifo_scheduler = IOScheduler("FIFO")
    /\ fifo_returned = NoLog
    /\ io_manager = IOManagerInit
    /\ notified = <<>>
    /\ ret = {}
    /\ calls = NoCalls
    /\ submitters = NoSubmitters
    /\ table_calls = <<>>
    /\ driver_table = DefaultDrivers

\* IOManager.add_io_operation with a new IOOperation, from another thread
SubmitNoting(d, size, prio, addr) ==
    /\ Len(ops) < MaxOps
    /\ LET op == Len(ops) + 1
           o == Append(ops, IOOperation(size, prio, addr))
       IN /\ ops' = o
          /\ io_scheduler' = add_operation(io_scheduler, o, d, op)
          /\ sched_log' = [sched_log EXCEPT ![d] = Append(@, <<"add", op>>)]
          /\ ret' = IF dcb[d].status = "CONECTADO" THEN ret \cup {op} ELSE ret
    /\ UNCHANGED <<dcb, drv_history, buffer_manager, interrupt_table, fifoVars, callerVars,
                   io_manager, notified, calls>>

\* no stop(), no external interrupt, no unregistration
NextProgress ==
    \/ \E d \in Devices, size \in Sizes, prio \in Priorities :
          SubmitNoting(d, size, prio, None)
    \/ DispatchStep

SpecProgress == InitProgress /\ [][NextProgress]_vars /\ WF_vars(DispatchStep)

\* ------------------- the scheduler with set_algorithm run by another thread

\* The two threads: submitters.set_algorithm is the thread inside
\* set_algorithm (the GUI's change_scheduling_algorithm), with its locals;
\* submitters.get_next_operation is the dispatch thread inside
\* get_next_operation.
SwitchIdle ==
    [set_algorithm |-> [pc |-> "idle", algorithm |-> "FIFO", size |-> 0, todo |-> {},
                        device_id |-> 0, new_queue |-> NewQueue("Queue"),
                        new_queues |-> EmptyMap, raised |-> FALSE],
     get_next_operation |-> [pc |-> "idle", device_id |-> 0]]

InitSwitch ==
    /\ buffer_manager = BufferManagerInit(PoolKb)
    /\ interrupt_table = InterruptTableInit
    /\ dcb = [d \in Devices |-> DeviceControlBlock]
    /\ drv_history = NoLog
    /\ ops = <<>>
    /\ io_scheduler \in {IOScheduler(a) : a \in Algorithms}
    /\ sched_log = NoLog
    /\ fifo_scheduler = IOScheduler("FIFO")
    /\ fifo_returned = NoLog
    /\ io_manager = IOManagerInit
    /\ notified = <<>>
    /\ ret = [io |-> 0, fifo |-> 0]
    /\ calls = NoCalls
    /\ submitters = SwitchIdle
    /\ table_calls = <<>>
    /\ driver_table = DeviceDriverTable

switchFrame == <<buffer_manager, interrupt_table, dcb, drv_history, io_manager, notified,
                 fifoVars, table_calls, driver_table, ops>>

\* set_algorithm(algorithm), lines 503-507: the policy is assigned, new_queues
\* is empty and the iteration over operation_queues.items() begins
SwitchBegin(algorithm) ==
    /\ calls.calls < MaxSwitches
    /\ submitters.set_algorithm.pc = "idle"
    /\ calls' = [calls EXCEPT !.calls = @ + 1]
    /\ io_scheduler' = [io_scheduler EXCEPT !.algorithm = algorithm]
    /\ submitters' = [submitters EXCEPT !.set_algorithm =
           [@ EXCEPT !.pc = "next", !.algorithm = algorithm,
                     !.size = Cardinality(DOMAIN io_scheduler.operation_queues),
                     !.todo = DOMAIN io_scheduler.operation_queues]]
    /\ UNCHANGED <<sched_log, ret, switchFrame>>

\* line 507, the iterator's next step: RuntimeError when the dictionary
\* changed size since the iteration began (set_algorithm is left, the
\* GUI catches the exception); else the next device and its new queue
\* (lines 509-514), or the end of the loop
SwitchNext ==
    /\ submitters.set_algorithm.pc = "next"
    /\ LET sw == submitters.set_algorithm IN
       IF Cardinality(DOMAIN io_scheduler.operation_queues) # sw.size
       THEN submitters' = [submitters EXCEPT !.set_algorithm.pc = "done",
                                             !.set_algorithm.raised = TRUE]
       ELSE IF sw.todo = {}
       THEN submitters' = [submitters EXCEPT !.set_algorithm.pc = "assign"]
       ELSE \E d \in sw.todo :
               submitters' = [submitters EXCEPT !.set_algorithm =
                   [@ EXCEPT !.pc = "empty", !.device_id = d, !.todo = @ \ {d},
                             !.new_queue = QueueFor(sw.algorithm)]]
    /\ UNCHANGED <<schedVars, ret, calls, switchFrame>>

\* line 517, `while not old_queue.empty()`; when the loop ends, line 521
SwitchEmpty ==
    /\ submitters.set_algorithm.pc = "empty"
    /\ LET sw == submitters.set_algorithm IN
       IF QEmpty(io_scheduler.operation_queues[sw.device_id])
       THEN submitters' = [submitters EXCEPT !.set_algorithm =
               [@ EXCEPT !.pc = "next",
                         !.new_queues = Put(@, sw.device_id, sw.new_queue)]]
       ELSE submitters' = [submitters EXCEPT !.set_algorithm.pc = "get"]
    /\ UNCHANGED <<schedVars, ret, calls, switchFrame>>

\* lines 518-519: old_queue.get(), which waits while the queue is empty,
\* then new_queue.put(item)
SwitchGet ==
    /\ submitters.set_algorithm.pc = "get"
    /\ LET sw == submitters.set_algorithm
           old_queue == io_scheduler.operation_queues[sw.device_id]
       IN /\ ~QEmpty(old_queue)
          /\ io_scheduler' = [io_scheduler EXCEPT !.operation_queues[sw.device_id] =
                                  QGet(ops, old_queue).q]
          /\ submitters' = [submitters EXCEPT
                 !.set_algorithm.pc = "empty",
                 !.set_algorithm.new_queue = QPut(ops, @, QGet(ops, old_queue).item)]
    /\ UNCHANGED <<sched_log, ret, calls, switchFrame>>

\* line 523: self.operation_queues = new_queues.  A thread waiting in get()
\* of an old queue keeps waiting on that queue, which no one holds any more.
SwitchAssign ==
    /\ submitters.set_algorithm.pc = "assign"
    /\ io_scheduler' = [io_scheduler EXCEPT
                           !.operation_queues = submitters.set_algorithm.new_queues]
    /\ submitters' = [submitters EXCEPT
           !.set_algorithm.pc = "done",
           !.get_next_operation.pc = IF @ = "blocked" THEN "orphaned" ELSE @]
    /\ UNCHANGED <<sched_log, ret, calls, switchFrame>>

\* get_next_operation(device_id), line 543: the test for a missing or empty
\* queue, and the return of None
GetTest(d) ==
    /\ submitters.get_next_operation.pc = "idle"
    /\ IF d \notin DOMAIN io_scheduler.operation_queues
          \/ QEmpty(io_scheduler.operation_queues[d])
       THEN /\ ret' = [ret EXCEPT !.io = 0]
            /\ UNCHANGED submitters
       ELSE /\ submitters' = [submitters EXCEPT
                   !.get_next_operation = [pc |-> "get", device_id |-> d]]
            /\ UNCHANGED ret
    /\ UNCHANGED <<schedVars, calls, switchFrame>>

\* lines 547-573: the branch of the policy as it is now, on the queue the
\* dictionary holds now.  The lookup raises KeyError when the dictionary
\* has lost the device (the dispatch loop catches it); Queue.get() on an
\* empty queue waits; the shortest-first branch drains with empty() tests
\* and returns None when it finds nothing.
GetEnter ==
    /\ submitters.get_next_operation.pc = "get"
    /\ LET d == submitters.get_next_operation.device_id
           r == get_next_operation(io_scheduler, ops, d)
       IN IF d \notin DOMAIN io_scheduler.operation_queues
          THEN /\ submitters' = [submitters EXCEPT !.get_next_operation.pc = "idle"]
               /\ UNCHANGED <<schedVars, ret>>
          ELSE IF /\ QEmpty(io_scheduler.operation_queues[d])
                  /\ io_scheduler.algorithm # "TRABAJO_MAS_CORTO_PRIMERO"
          THEN /\ submitters' = [submitters EXCEPT !.get_next_operation.pc = "blocked"]
               /\ UNCHANGED <<schedVars, ret>>
          ELSE /\ io_scheduler' = r.s
               /\ ret' = [ret EXCEPT !.io = r.op]
               /\ sched_log' = IF r.op # 0
                               THEN [sched_log EXCEPT ![d] = Append(@, <<"get", r.op>>)]
                               ELSE sched_log
               /\ submitters' = [submitters EXCEPT !.get_next_operation.pc = "idle"]
    /\ UNCHANGED <<calls, switchFrame>>

\* the dispatch thread waits in Queue.get() of a queue the dictionary still
\* holds, and an item is put: get() returns it
GetWake ==
    /\ submitters.get_next_operation.pc = "blocked"
    /\ LET d == submitters.get_next_operation.device_id
           q == io_scheduler.operation_queues[d]
       IN /\ ~QEmpty(q)
          /\ io_scheduler' = [io_scheduler EXCEPT !.operation_queues[d] = QGet(ops, q).q]
          /\ ret' = [ret EXCEPT !.io = QGet(ops, q).item]
          /\ sched_log' = [sched_log EXCEPT ![d] = Append(@, <<"get", QGet(ops, q).item>>)]
    /\ submitters' = [submitters EXCEPT !.get_next_operation.pc = "idle"]
    /\ UNCHANGED <<calls, switchFrame>>

\* add_operation from a third thread, between two steps of the others
SwitchAdd(d, shape) ==
    /\ Len(ops) < MaxQueued
    /\ LET op == Len(ops) + 1
           o == Append(ops, IOOperation(shape[1], shape[2], None))
       IN /\ ops' = o
          /\ io_scheduler' = add_operation(io_scheduler, o, d, op)
          /\ sched_log' = [sched_log EXCEPT ![d] = Append(@, <<"add", op>>)]
    /\ UNCHANGED <<ret, calls, submitters, buffer_manager, interrupt_table, dcb,
                   drv_history, io_manager, notified, fifoVars, table_calls, driver_table>>

SwitchStep == SwitchNext \/ SwitchEmpty \/ SwitchGet \/ SwitchAssign
GetStep == GetEnter \/ GetWake

NextSwitch ==
    \/ \E d \in Devices, shape \in AlgShapes : SwitchAdd(d, shape)
    \/ \E algorithm \in Algorithms : SwitchBegin(algorithm)
    \/ \E d \in Devices : GetTest(d)
    \/ SwitchStep
    \/ GetStep

SpecSwitch == InitSwitch /\ [][NextSwitch]_vars

\* The same threads with the calls for one device and requests of one
\* shape, the scheduler constructed with FIFO.  Each thread runs on: a step
\* it can take is taken eventually.
InitSwitchLive == InitSwitch /\ io_scheduler = IOScheduler("FIFO")

NextSwitchLive ==
    \/ SwitchAdd(1, <<MB(5), 5>>)
    \/ \E algorithm \in Algorithms : SwitchBegin(algorithm)
    \/ GetTest(1)
    \/ SwitchStep
    \/ GetStep

SpecSwitchLive ==
    InitSwitchLive /\ [][NextSwitchLive]_vars /\ WF_vars(SwitchStep) /\ WF_vars(GetStep)

\* ================================================================== claims

Range(seq) == {seq[i] : i \in 1..Len(seq)}

RECURSIVE Select(_, _)
\* the requests of the entries of a device's log that are calls of `call`
Select(log, call) ==
    IF log = <<>> THEN <<>>
    ELSE (IF Head(log)[1] = call THEN <<Head(log)[2]>> ELSE <<>>) \o Select(Tail(log), call)

IsPrefix(a, b) == Len(a) <= Len(b) /\ a = SubSeq(b, 1, Len(a))

\* the requests a device's driver has in progress
InProgress(d) ==
    {op \in Range(drv_history[d]) : ops[op].status = "EN_PROGRESO"}

Terminal == {"COMPLETADA", "FALLIDA"}

\* ---- C1
\* C1: after any sequence of allocate_buffer and release_buffer calls (sizes
\* >= 0, any request ids) used_buffer_kb is between 0 and
\* total_buffer_size_kb, and get_buffer_usage() is within [0, 100].
C1_UsedWithinCapacity ==
    /\ buffer_manager.used_buffer_kb >= 0
    /\ buffer_manager.used_buffer_kb <= buffer_manager.total_buffer_size_kb
    /\ LET u == get_buffer_usage(buffer_manager)
       IN u[1] >= 0 /\ u[1] <= 100 * u[2]

\* a pool of the GUI's size, filled by one allocation, has just refused a
\* request
C1_Witness ==
    /\ buffer_manager.total_buffer_size_kb = PoolKb
    /\ buffer_manager.used_buffer_kb = PoolKb
    /\ ret = FALSE
    /\ calls.calls >= 2
    /\ Cardinality(DOMAIN buffer_manager.buffers) = 1

\* ---- C2
\* C2: in every reachable state of the system each device has at most one
\* request whose status is in_progress.
C2_OneInProgressPerDevice ==
    \A d \in Devices : Cardinality(InProgress(d)) <= 1

\* a request is in progress on a device that an interrupt has set back to
\* connected, and another request waits in the device's queue
C2_Witness ==
    \E d \in Devices :
        /\ InProgress(d) # {}
        /\ dcb[d].status = "CONECTADO"
        /\ get_queue_length(io_scheduler, d) > 0

\* ---- C3
\* the run of test_core_functionality: one read of 10 MB at priority 5 with
\* no block address for the block device, no other request, no interrupt
\* after the connection, and the loop has recorded the request's outcome
TestRunProcessed ==
    /\ ops # <<>>
    /\ Len(ops) = 1
    /\ ops[1].data_size_mb = MB(10)
    /\ ops[1].priority = 5
    /\ ops[1].block_address = None
    /\ sched_log[1] = <<<<"add", 1>>, <<"get", 1>>>>
    /\ calls.interrupts = 0
    /\ Len(io_manager.operation_history) = 1
    /\ io_manager.pc # "record"

\* C3: in the configuration of test_core_functionality, when the fault draw
\* does not trigger, after the loop has processed the request the device is
\* connected, operations_completed = 1, bytes_transferred = 10 * 1024 * 1024
\* and the listener got exactly one notification, with success = true.
C3_TestRunSucceeds ==
    (TestRunProcessed /\ io_manager.fault # Some(TRUE)) =>
        /\ dcb[1].status = "CONECTADO"
        /\ dcb[1].operations_completed = 1
        /\ dcb[1].bytes_transferred = 10 * 1024 * 1024
        /\ Len(notified) = 1
        /\ notified[1].success

\* ---- C4
\* the dispatch thread leaves perform_operation with a request it had
\* accepted and has failed
PerformFailsRequest ==
    /\ io_manager.pc \in {"perform", "finish"}
    /\ io_manager.pc = "perform" => Accepts(World, io_manager.device_id)
    /\ io_manager'.pc = "record"
    /\ ~io_manager'.success

\* C4: for both drivers and every cause of failure (buffer exhaustion,
\* simulated fault), when perform_operation fails a request then on return
\* the request is failed, it holds no buffer, the device status is error and
\* the device's error count has been incremented.
C4_FailedPerformLeavesError ==
    [][PerformFailsRequest =>
          LET d == io_manager.device_id
              op == io_manager.io_operation
          IN /\ ops'[op].status = "FALLIDA"
             /\ op \notin DOMAIN buffer_manager'.buffers
             /\ dcb'[d].status = "ERROR"
             /\ dcb'[d].error_count > dcb[d].error_count]_vars

\* ---- C5
\* C5: a request whose status is completed or failed has no allocation in
\* the pool, and the pool usage is 0 whenever no request is inside perform.
C5_TerminalRequestsHoldNoBuffer ==
    /\ \A op \in 1..Len(ops) :
          ops[op].status \in Terminal => op \notin DOMAIN buffer_manager.buffers
    /\ io_manager.pc \notin {"transfer", "finish"} =>
          /\ buffer_manager.used_buffer_kb = 0
          /\ get_buffer_usage(buffer_manager)[1] = 0

\* the block device has completed one request and failed the next one by a
\* fault, both with a buffer, and perform has returned
C5_Witness ==
    /\ Len(drv_history[1]) = 2
    /\ ops[drv_history[1][1]].status = "COMPLETADA"
    /\ ops[drv_history[1][2]].status = "FALLIDA"
    /\ io_manager.fault = Some(TRUE)
    /\ io_manager.device_id = 1
    /\ io_manager.pc = "record"

\* ---- C6
Statuses == {"DESCONECTADO", "CONECTADO", "OCUPADO", "ERROR", "EN_ESPERA"}

\* the dispatch thread calls perform_operation on a device that is not
\* connected
PerformOnUnconnected ==
    /\ io_manager.pc = "perform"
    /\ io_manager'.pc # "perform"
    /\ dcb[io_manager.device_id].status # "CONECTADO"

\* perform_operation's entry, on the world with the device in status st
RejectedIn(d, op, st) ==
    LET w == [World EXCEPT !.dcb[d].status = st]
        e == PerformEntry(w, d, op)
    IN ~e.ok /\ e.w = w

\* C6: perform_operation on a device whose status is not connected
\* (disconnected, busy, error or waiting) returns false and changes nothing:
\* device record, driver history, buffer pool, interrupt table and request
\* are unchanged.
C6_RejectChangesNothing ==
    [][/\ \A d \in Devices, op \in 1..Len(ops), st \in Statuses \ {"CONECTADO"} :
             RejectedIn(d, op, st)
       /\ PerformOnUnconnected =>
             /\ io_manager'.pc = "record"
             /\ ~io_manager'.success
             /\ UNCHANGED <<dcb, drv_history, buffer_manager, interrupt_table, ops>>]_vars

\* perform_operation has just rejected a request of a disconnected device
C6_Witness ==
    /\ io_manager.pc = "record"
    /\ ~io_manager.success
    /\ dcb[io_manager.device_id].status = "DESCONECTADO"
    /\ ops[io_manager.io_operation].status = "PENDIENTE"
    /\ ops[io_manager.io_operation].start_time = None
    /\ drv_history[io_manager.device_id] = <<>>

\* ---- C7
\* C7: under the priority policy, dequeuing the requests enqueued for a
\* device yields non-increasing priorities: of two requests returned by
\* consecutive get_next_operation calls with no enqueue between them, the
\* second has no higher priority than the first.
C7_PriorityOrder ==
    io_scheduler.algorithm = "PRIORIDAD" =>
        \A d \in Devices : \A i \in 1..(Len(sched_log[d]) - 1) :
            (sched_log[d][i][1] = "get" /\ sched_log[d][i + 1][1] = "get") =>
                ops[sched_log[d][i][2]].priority >= ops[sched_log[d][i + 1][2]].priority

\* three requests enqueued with rising priorities for one device have all
\* been dequeued
C7_Witness ==
    /\ io_scheduler.algorithm = "PRIORIDAD"
    /\ \E d \in Devices :
          /\ Len(sched_log[d]) = 6
          /\ Select(SubSeq(sched_log[d], 1, 3), "add") = <<1, 2, 3>>
          /\ Select(SubSeq(sched_log[d], 4, 6), "get") = <<3, 2, 1>>
          /\ ops[1].priority < ops[2].priority
          /\ ops[2].priority < ops[3].priority

\* ---- C8
\* the log of a device is a batch enqueued into the empty queue followed by
\* one get_next_operation
BatchThenGet(log) ==
    /\ Len(log) >= 2
    /\ log[Len(log)][1] = "get"
    /\ \A i \in 1..(Len(log) - 1) : log[i][1] = "add"

\* C8: under shortest-request-first the first get_next_operation after a
\* batch was enqueued for a device returns a request of the batch with the
\* minimum data size, and the other requests of the batch remain queued.
C8_ShortestFirst ==
    io_scheduler.algorithm = "TRABAJO_MAS_CORTO_PRIMERO" =>
        \A d \in Devices :
            BatchThenGet(sched_log[d]) =>
                LET batch == Range(Select(sched_log[d], "add"))
                    got == sched_log[d][Len(sched_log[d])][2]
                    queue == io_scheduler.operation_queues[d].items
                IN /\ got \in batch
                   /\ \A op \in batch : ops[got].data_size_mb <= ops[op].data_size_mb
                   /\ Range(queue) = batch \ {got}
                   /\ Len(queue) = Cardinality(batch) - 1

\* sizes 50 then 5 were enqueued for a device and the first dequeue gave the
\* request of size 5
C8_Witness ==
    /\ io_scheduler.algorithm = "TRABAJO_MAS_CORTO_PRIMERO"
    /\ \E d \in Devices :
          /\ sched_log[d] = <<<<"add", 1>>, <<"add", 2>>, <<"get", 2>>>>
          /\ ops[1].data_size_mb = MB(50)
          /\ ops[2].data_size_mb = MB(5)
          /\ io_scheduler.operation_queues[d].items = <<1>>

\* ---- C9
\* C9: under FIFO the requests of each device are returned in exactly the
\* order add_operation enqueued them for that device, whatever is enqueued
\* and dequeued for the other devices.
C9_FifoOrder ==
    io_scheduler.algorithm = "FIFO" =>
        \A d \in Devices :
            IsPrefix(Select(sched_log[d], "get"), Select(sched_log[d], "add"))

\* two requests of one device were returned in their order of arrival while
\* a request of the other device, enqueued between them, was returned too
C9_Witness ==
    /\ io_scheduler.algorithm = "FIFO"
    /\ Select(sched_log[1], "add") = <<1, 3>>
    /\ Select(sched_log[1], "get") = <<1, 3>>
    /\ Select(sched_log[2], "get") = <<2>>
    /\ ops[1].priority < ops[3].priority

\* ---- C10
\* C10: for the same sequence of add_operation and get_next_operation calls
\* a scheduler set to round-robin returns the same requests in the same
\* order as a scheduler set to FIFO.
C10_RoundRobinAsFifo ==
    io_scheduler.algorithm = "ROUND_ROBIN" =>
        /\ ret.io = ret.fifo
        /\ \A d \in Devices : Select(sched_log[d], "get") = fifo_returned[d]

\* the round-robin scheduler has returned, in order, two requests that were
\* both queued for one device before the first call
C10_Witness ==
    /\ io_scheduler.algorithm = "ROUND_ROBIN"
    /\ \E d \in Devices :
          /\ Len(sched_log[d]) >= 4
          /\ SubSeq(sched_log[d], 1, 4) =
                 <<<<"add", 1>>, <<"add", 2>>, <<"get", 1>>, <<"get", 2>>>>
          /\ fifo_returned[d] = <<1, 2>>

\* ---- C11
\* C11: set_algorithm, with no concurrent access to the scheduler, preserves
\* the contents for every old and new policy: the devices that had a queue
\* still have one, each queue holds the same set of requests as before and
\* get_queue_length is unchanged for every device.
C11_SetAlgorithmKeepsContents ==
    [][calls'.calls # calls.calls =>
          /\ DOMAIN io_scheduler'.operation_queues = DOMAIN io_scheduler.operation_queues
          /\ \A d \in DOMAIN io_scheduler.operation_queues :
                /\ Range(io_scheduler'.operation_queues[d].items) =
                       Range(io_scheduler.operation_queues[d].items)
                /\ Len(io_scheduler'.operation_queues[d].items) =
                       Len(io_scheduler.operation_queues[d].items)
          /\ \A d \in Devices :
                get_queue_length(io_scheduler', d) = get_queue_length(io_scheduler, d)]_vars

\* a queue filled under the priority policy was rebuilt for FIFO: it holds
\* the two requests in the order the priority queue gave them, and the other
\* device still has its (empty) queue
C11_Witness ==
    /\ io_scheduler.algorithm = "FIFO"
    /\ calls.calls >= 1
    /\ \E d \in Devices, e \in Devices :
          /\ d # e
          /\ sched_log[d] = <<<<"add", 1>>, <<"add", 2>>>>
          /\ ops[1].priority < ops[2].priority
          /\ io_scheduler.operation_queues[d] = [kind |-> "Queue", items |-> <<2, 1>>]
          /\ e \in DOMAIN io_scheduler.operation_queues
          /\ io_scheduler.operation_queues[e].items = <<>>

\* ---- C12
\* how often x occurs in seq
Count(seq, x) == Cardinality({i \in 1..Len(seq) : seq[i] = x})

\* the requests in the queue of device d
Queued(d) ==
    IF d \in DOMAIN io_scheduler.operation_queues
    THEN io_scheduler.operation_queues[d].items ELSE <<>>

\* C12: with the policy fixed, threads calling add_operation concurrently
\* with the dispatch loop's get_next_operation lose no request and return
\* none twice: each request whose add_operation has returned was either
\* returned by exactly one get_next_operation or is in its device's queue
\* (first submissions for a device without a queue included).
C12_NoRequestLostOrRepeated ==
    \A d \in Devices : \A op \in Range(Select(sched_log[d], "add")) :
        Count(Select(sched_log[d], "get"), op) + Count(Queued(d), op) = 1

\* ---- C13
\* C13: allocate_buffer(size, request_id) returns true iff used + size <=
\* capacity at the time of the call (size in the pool's unit, KB); on success
\* used grows by exactly size and the mapping request_id -> size is
\* recorded; on refusal it returns false and used and all mappings are
\* unchanged.
C13_AllocateIffRoom ==
    \A size_mb \in BufSizes, operation_id \in BufRequestIds :
        LET bm == buffer_manager
            size_kb == SizeKb(size_mb)
            r == allocate_buffer(bm, size_mb, operation_id)
        IN /\ r.ok \in BOOLEAN
           /\ r.ok <=> (bm.used_buffer_kb + size_kb <= bm.total_buffer_size_kb)
           /\ r.ok =>
                 /\ r.bm.used_buffer_kb = bm.used_buffer_kb + size_kb
                 /\ DOMAIN r.bm.buffers = DOMAIN bm.buffers \cup {operation_id}
                 /\ r.bm.buffers[operation_id] = size_kb
                 /\ \A other \in DOMAIN bm.buffers \ {operation_id} :
                       r.bm.buffers[other] = bm.buffers[other]
                 /\ r.bm.total_buffer_size_kb = bm.total_buffer_size_kb
           /\ ~r.ok => r.bm = bm

\* a pool of 3 KB holds requests of 1 KB and 2 KB: the second allocation
\* fitted exactly and returned true
C13_Witness ==
    /\ buffer_manager.total_buffer_size_kb = 3
    /\ buffer_manager.used_buffer_kb = 3
    /\ Cardinality(DOMAIN buffer_manager.buffers) = 2
    /\ ret = TRUE

\* ---- the interrupt table: what a step did

\* the step is one call trigger_interrupt(n) from outside any handler
TriggeredNow(n) ==
    /\ Len(table_calls') = Len(table_calls) + 1
    /\ table_calls'[Len(table_calls')].call = "trigger"
    /\ table_calls'[Len(table_calls')].interrupt_type = n

\* the step is one call perform_operation of driver d
PerformedNow(d) ==
    /\ Len(table_calls') = Len(table_calls) + 1
    /\ table_calls'[Len(table_calls')].call = "perform"
    /\ table_calls'[Len(table_calls')].handler.driver = d

\* the entries of the interrupt history the step appended
NewEntries ==
    SubSeq(interrupt_table'.interrupt_history,
           Len(interrupt_table.interrupt_history) + 1,
           Len(interrupt_table'.interrupt_history))

HistoryExtended ==
    /\ Len(interrupt_table'.interrupt_history) >= Len(interrupt_table.interrupt_history)
    /\ SubSeq(interrupt_table'.interrupt_history, 1,
              Len(interrupt_table.interrupt_history)) = interrupt_table.interrupt_history

\* the trigger count of n, 0 when n has no counter
CountOf(it, n) ==
    IF n \in DOMAIN it.interrupt_stats THEN it.interrupt_stats[n].count ELSE 0

\* ---- C14
\* C14: for an event name with a registered handler, one external call of
\* trigger_interrupt raises that event's trigger count by exactly 1 and
\* changes no other event's count, whatever the handler does; this for every
\* handler the drivers register.
C14_TriggerCountsOnce ==
    [][\A n \in TableTypes :
          (TriggeredNow(n) /\ n \in DOMAIN interrupt_table.interrupt_handlers) =>
              /\ interrupt_table'.interrupt_stats[n].count =
                     interrupt_table.interrupt_stats[n].count + 1
              /\ \A m \in DOMAIN interrupt_table.interrupt_stats \ {n} :
                     interrupt_table'.interrupt_stats[m].count =
                        interrupt_table.interrupt_stats[m].count]_vars

\* ---- C15
\* C15: trigger_interrupt for an event name with no registered handler
\* appends exactly one entry to the interrupt history, changes no trigger
\* counter, invokes no handler and returns normally.
C15_UnregisteredTrigger ==
    [][\A n \in TableTypes :
          (TriggeredNow(n) /\ n \notin DOMAIN interrupt_table.interrupt_handlers) =>
              /\ interrupt_table'.interrupt_history =
                     Append(interrupt_table.interrupt_history, [type |-> n, args |-> <<>>])
              /\ interrupt_table'.interrupt_stats = interrupt_table.interrupt_stats
              /\ interrupt_table'.interrupt_handlers = interrupt_table.interrupt_handlers
              /\ UNCHANGED <<dcb, drv_history, ops, buffer_manager>>
              /\ ~ret'.raised]_vars

\* a character driver is registered and the ERROR interrupt of its name,
\* which it does not register, was triggered: the entry is in the history
\* and the type has no counter
C15_Witness ==
    /\ Constructed = {4}
    /\ table_calls # <<>>
    /\ table_calls[Len(table_calls)].call = "trigger"
    /\ table_calls[Len(table_calls)].interrupt_type = InterruptName(DeviceName(4), "ERROR")
    /\ interrupt_table.interrupt_history =
           <<[type |-> InterruptName(DeviceName(4), "ERROR"), args |-> <<>>]>>
    /\ InterruptName(DeviceName(4), "ERROR") \notin DOMAIN interrupt_table.interrupt_stats

\* ---- C16
\* C16: every call of trigger_interrupt(event_name) appends a history entry
\* and increments the trigger counter of event_name, also when no handler
\* was ever registered for it: the event then has a counter equal to the
\* number of times it was triggered.
C16_EveryTriggerCounts ==
    [][\A n \in TableTypes :
          TriggeredNow(n) =>
              /\ HistoryExtended
              /\ NewEntries # <<>>
              /\ n \in DOMAIN interrupt_table'.interrupt_stats
              /\ CountOf(interrupt_table', n) =
                     CountOf(interrupt_table, n) + Count(NewEntries, [type |-> n, args |-> <<>>])]_vars

\* C16 as the code has it: every call of trigger_interrupt(event_name)
\* appends a history entry; it increments the counter of event_name when
\* event_name has been registered (once per history entry), and an event
\* name that was never registered gets no counter.
C16_TriggerCountsRegistered ==
    [][\A n \in TableTypes :
          TriggeredNow(n) =>
              /\ HistoryExtended
              /\ NewEntries # <<>>
              /\ NewEntries[1] = [type |-> n, args |-> <<>>]
              /\ DOMAIN interrupt_table'.interrupt_stats = DOMAIN interrupt_table.interrupt_stats
              /\ n \in DOMAIN interrupt_table.interrupt_stats =>
                     CountOf(interrupt_table', n) =
                        CountOf(interrupt_table, n) + Count(NewEntries, [type |-> n, args |-> <<>>])
              /\ \A m \in DOMAIN interrupt_table.interrupt_stats \ {n} :
                     CountOf(interrupt_table', m) =
                        CountOf(interrupt_table, m) + Count(NewEntries, [type |-> m, args |-> <<>>])]_vars

\* the history holds an interrupt of a registered type, counted, and one of
\* a type that has no counter
C16_Witness ==
    /\ Len(interrupt_table.interrupt_history) = 2
    /\ \E i, j \in 1..2 :
          /\ interrupt_table.interrupt_history[i].type \in DOMAIN interrupt_table.interrupt_stats
          /\ CountOf(interrupt_table, interrupt_table.interrupt_history[i].type) = 1
          /\ interrupt_table.interrupt_history[j].type \notin DOMAIN interrupt_table.interrupt_stats

\* ---- C17
\* the raising callable is registered for the completion interrupt
CompletionRaises ==
    /\ InterruptName(DeviceName(1), "OPERATION_COMPLETED") \in
           DOMAIN interrupt_table.interrupt_handlers
    /\ interrupt_table.interrupt_handlers[InterruptName(DeviceName(1), "OPERATION_COMPLETED")]
           = RaisingHandler

\* C17: if the handler registered for an event raises, trigger_interrupt
\* still returns normally and the history entry and the counter increment of
\* that trigger are kept; a raising handler reached from complete_operation
\* does not change the outcome of perform_operation.
C17_HandlerFaultIsolated ==
    [][/\ \A n \in TableTypes :
             (TriggeredNow(n) /\ n \in DOMAIN interrupt_table.interrupt_handlers) =>
                 /\ ~ret'.raised
                 /\ HistoryExtended
                 /\ NewEntries # <<>>
                 /\ NewEntries[1] = [type |-> n, args |-> <<>>]
                 /\ CountOf(interrupt_table', n) >= CountOf(interrupt_table, n) + 1
                 /\ interrupt_table.interrupt_handlers[n] = RaisingHandler =>
                        /\ Len(NewEntries) = 1
                        /\ CountOf(interrupt_table', n) = CountOf(interrupt_table, n) + 1
                        /\ UNCHANGED <<dcb, ops, buffer_manager>>
       /\ \A d \in PerformDrivers :
             (PerformedNow(d) /\ CompletionRaises) =>
                 LET op == Len(ops')
                 IN /\ ret'.result <=> (dcb[d].status = "CONECTADO" /\ ~ret'.fault)
                    /\ ret'.result =>
                          /\ ops'[op].status = "COMPLETADA"
                          /\ dcb'[d].status = "CONECTADO"
                          /\ dcb'[d].operations_completed = dcb[d].operations_completed + 1
                    /\ (dcb[d].status = "CONECTADO" /\ ret'.fault) =>
                          /\ ops'[op].status = "FALLIDA"
                          /\ dcb'[d].status = "ERROR"
                          /\ dcb'[d].error_count = dcb[d].error_count + 1
                    /\ op \notin DOMAIN buffer_manager'.buffers]_vars

\* with the raising callable registered for the completion interrupt, a
\* driver has performed a request successfully, and the interrupt is in the
\* history and counted
C17_Witness ==
    /\ CompletionRaises
    /\ table_calls[Len(table_calls)].call = "perform"
    /\ ret.result /\ ~ret.fault
    /\ ops[1].status = "COMPLETADA"
    /\ CountOf(interrupt_table, InterruptName(DeviceName(1), "OPERATION_COMPLETED")) = 1
    /\ interrupt_table.interrupt_history[Len(interrupt_table.interrupt_history)].type =
           InterruptName(DeviceName(1), "OPERATION_COMPLETED")

\* ---- C18
\* the positions of table_calls that register a handler for n
RegisteredAt(n) ==
    {i \in 1..Len(table_calls) :
        table_calls[i].call = "register" /\ table_calls[i].interrupt_type = n}

Max(S) == CHOOSE x \in S : \A y \in S : y <= x

\* every interrupt type that was registered has the handler of its latest
\* registration, and no other type has a handler
HandlersAreLatest ==
    /\ DOMAIN interrupt_table.interrupt_handlers =
           {table_calls[i].interrupt_type :
               i \in {j \in 1..Len(table_calls) : table_calls[j].call = "register"}}
    /\ \A n \in DOMAIN interrupt_table.interrupt_handlers :
           interrupt_table.interrupt_handlers[n] = table_calls[Max(RegisteredAt(n))].handler

\* a registration resets the counter; a trigger reaches only the driver of
\* the handler the type has
RegistrationStep ==
    /\ HandlersAreLatest'
    /\ \A i \in (Len(table_calls) + 1)..Len(table_calls') :
           table_calls'[i].call = "register" =>
              interrupt_table'.interrupt_stats[table_calls'[i].interrupt_type] =
                 [count |-> 0, last_triggered |-> None]
    /\ \A n \in TableTypes :
           (TriggeredNow(n) /\ n \in DOMAIN interrupt_table.interrupt_handlers) =>
              \A d \in AllDrivers :
                  d # interrupt_table.interrupt_handlers[n].driver => dcb'[d] = dcb[d]

\* the driver constructed last
LastConstructed ==
    table_calls[Max({i \in 1..Len(table_calls) :
                        /\ table_calls[i].call = "register"
                        /\ table_calls[i].handler.driver \in TableDrivers})].handler.driver

\* C18: after any sequence of register_interrupt_handler calls each event
\* name has at most one handler, the most recently registered one, and each
\* registration resets the event's count to 0 and its last-trigger time to
\* none; a later trigger invokes only the latest handler, so of two drivers
\* created with the same device name only the later one reacts to that
\* name's interrupts.
C18_OnlyLaterDriverReacts ==
    [][/\ RegistrationStep
       /\ \A n \in TableTypes :
             (TriggeredNow(n) /\ Constructed # {}) =>
                 \A d \in Constructed \ {LastConstructed} : dcb'[d] = dcb[d]]_vars

\* C18 as the code has it: the same, but of two drivers created with the
\* same device name only the later one reacts to the interrupts that the
\* later one registers (and that no registration has replaced since); an
\* interrupt only the earlier driver registers still reaches the earlier
\* driver.
C18_LatestRegistrationWins ==
    [][/\ RegistrationStep
       /\ \A n \in TableTypes :
             (/\ TriggeredNow(n)
              /\ Constructed # {}
              /\ n \in DOMAIN interrupt_table.interrupt_handlers
              /\ interrupt_table.interrupt_handlers[n].driver = LastConstructed) =>
                 \A d \in Constructed \ {LastConstructed} : dcb'[d] = dcb[d]]_vars

\* two block drivers of one name were constructed, then CONNECT triggered:
\* the later driver's device is connected, the earlier one's is not, and the
\* interrupt is counted once
C18_Witness ==
    /\ Constructed = {1, 3}
    /\ LastConstructed = 3
    /\ table_calls[Len(table_calls)].call = "trigger"
    /\ dcb[3].status = "CONECTADO"
    /\ dcb[1].status = "DESCONECTADO"
    /\ CountOf(interrupt_table, InterruptName(DeviceName(1), "CONNECT")) = 1

\* ---- C19
\* complete_operation(op, success) of driver d, called in the current state
CompletesAsSpecified(d, op, success) ==
    LET w == World
        r == complete_operation(w, d, op, success)
    IN /\ r.ops[op].status = IF success THEN "COMPLETADA" ELSE "FALLIDA"
       /\ \A other \in 1..Len(ops) \ {op} : r.ops[other] = w.ops[other]
       /\ success =>
             /\ r.dcb[d].operations_completed = w.dcb[d].operations_completed + 1
             /\ r.dcb[d].bytes_transferred =
                    w.dcb[d].bytes_transferred + w.ops[op].data_size_mb * 512
             /\ r.dcb[d].error_count = w.dcb[d].error_count
       /\ ~success =>
             /\ r.dcb[d].error_count = w.dcb[d].error_count + 1
             /\ r.dcb[d].operations_completed = w.dcb[d].operations_completed
             /\ r.dcb[d].bytes_transferred = w.dcb[d].bytes_transferred
       /\ \A e \in DOMAIN w.dcb \ {d} : r.dcb[e] = w.dcb[e]
       /\ op \notin DOMAIN r.bm.buffers
       /\ r.bm.used_buffer_kb =
              w.bm.used_buffer_kb -
                 (IF op \in DOMAIN w.bm.buffers THEN w.bm.buffers[op] ELSE 0)
       /\ r.it.interrupt_history =
              Append(w.it.interrupt_history,
                     [type |-> InterruptName(DeviceName(d), "OPERATION_COMPLETED"),
                      args |-> <<op, success>>])

\* the requests the step has failed
FailedNow == {op \in 1..Len(ops) : ops[op].status # "FALLIDA" /\ ops'[op].status = "FALLIDA"}

\* C19: complete_operation(request, success) sets the request to completed
\* or failed; on success it adds 1 to operations_completed and the size in
\* bytes to bytes_transferred and leaves error_count; on failure it adds
\* exactly 1 to error_count and leaves the other two counters; in both cases
\* it releases the request's buffer and appends exactly one
\* <DEVICE>_OPERATION_COMPLETED interrupt with payload (request, success) to
\* the history.  So each request a driver of either type fails raises the
\* error count of its device by exactly 1.
C19_CompleteOperationEffects ==
    [][/\ \A d \in Devices, op \in 1..Len(ops), success \in BOOLEAN :
             CompletesAsSpecified(d, op, success)
       /\ \A op \in FailedNow :
             LET d == io_manager.device_id
             IN /\ FailedNow = {op}
                /\ op \in Range(drv_history'[d])
                /\ dcb'[d].error_count = dcb[d].error_count + 1
                /\ \A e \in Devices \ {d} : dcb'[e].error_count = dcb[e].error_count]_vars

\* the character device has failed a request by a fault: its error count is
\* 1 and the completion interrupt with payload (request, false) is the last
\* entry but one of the history, before the device's ERROR interrupt
C19_Witness ==
    /\ io_manager.pc = "record"
    /\ io_manager.device_id = 2
    /\ ~io_manager.success
    /\ ops[io_manager.io_operation].status = "FALLIDA"
    /\ dcb[2].error_count = 1
    /\ dcb[2].operations_completed = 0
    /\ Len(interrupt_table.interrupt_history) >= 2
    /\ interrupt_table.interrupt_history[Len(interrupt_table.interrupt_history) - 1] =
           [type |-> InterruptName(DeviceName(2), "OPERATION_COMPLETED"),
            args |-> <<io_manager.io_operation, FALSE>>]
    /\ interrupt_table.interrupt_history[Len(interrupt_table.interrupt_history)].type =
           InterruptName(DeviceName(2), "ERROR")

\* ---- C20
\* the dispatch thread has the outcome of a request and goes on from it
RecordedNow == io_manager.pc = "record" /\ io_manager'.pc # "record"

\* C20: for every request the dispatch loop processes, each subscribed
\* listener is invoked exactly once with (device_id, request, success), in
\* subscription order; a listener that raises neither keeps the listeners
\* after it from being invoked for that request nor stops the loop from
\* processing the remaining devices of the iteration.
C20_ListenersAllInvoked ==
    [][RecordedNow =>
          LET listeners == io_manager.status_listeners
          IN /\ notified' = notified \o
                    [i \in 1..Len(listeners) |->
                        [listener |-> listeners[i],
                         device_id |-> io_manager.device_id,
                         io_operation |-> io_manager.io_operation,
                         success |-> io_manager.success]]
             /\ io_manager'.pc = "poll"
             /\ io_manager'.todo = io_manager.todo
             /\ io_manager'.running = io_manager.running]_vars

\* a raising listener was subscribed before a returning one; in one
\* iteration the request of device 1 succeeded and the one of device 2
\* failed, and for each of them both listeners were called, in order
C20_Witness ==
    /\ io_manager.status_listeners = <<"raising", "listener">>
    /\ io_manager.pc = "poll"
    /\ io_manager.todo = <<>>
    /\ Len(io_manager.operation_history) = 2
    /\ Len(notified) = 4
    /\ notified[1] = [listener |-> "raising", device_id |-> 1,
                      io_operation |-> notified[1].io_operation, success |-> TRUE]
    /\ notified[2] = [notified[1] EXCEPT !.listener = "listener"]
    /\ notified[3] = [listener |-> "raising", device_id |-> 2,
                      io_operation |-> notified[3].io_operation, success |-> FALSE]
    /\ notified[4] = [notified[3] EXCEPT !.listener = "listener"]
    /\ notified[1].io_operation # notified[3].io_operation

\* ---- C21
\* request op has been returned by get_next_operation
Dequeued(op) == \E d \in Devices : op \in Range(Select(sched_log[d], "get"))

\* request op is in a queue of the scheduler
Enqueued(op) == \E d \in Devices : op \in Range(Queued(d))

\* C21: an exception raised inside an iteration of the dispatch loop does
\* not end the loop: as long as stop() has not been called the thread is
\* never over, it starts another iteration, and every request in a queue,
\* the ones enqueued after the exception included, is eventually taken from
\* the scheduler.
C21_LoopSurvivesException ==
    /\ [](io_manager.pc = "stopped" => ~io_manager.running)
    /\ (ret # None) ~> (io_manager.pc = "poll" \/ ~io_manager.running)
    /\ \A op \in 1..MaxOps :
          (op <= Len(ops) /\ Enqueued(op)) ~> (Dequeued(op) \/ ~io_manager.running)

\* the loop caught an exception when no request existed yet; a request
\* submitted later has been performed and recorded
C21_Witness ==
    /\ ret = Some(0)
    /\ io_manager.running
    /\ Len(io_manager.operation_history) = 1
    /\ ops[io_manager.operation_history[1].operation_id].status = "COMPLETADA"

\* ---- C22
\* stop() was called while the dispatch thread was inside perform_operation
\* with a request it had started
StoppedInside == ret # None /\ ret[1].pc \in {"transfer", "finish"}

\* the outcome of request op is counted, in the run history and notified
OutcomeRecorded(op) ==
    /\ ops[op].status \in Terminal
    /\ Cardinality({i \in 1..Len(io_manager.operation_history) :
                       /\ io_manager.operation_history[i].operation_id = op
                       /\ io_manager.operation_history[i].status = ops[op].status
                       /\ io_manager.operation_history[i].success =
                              (ops[op].status = "COMPLETADA")}) = 1
    /\ Cardinality({i \in 1..Len(notified) :
                       /\ notified[i].io_operation = op
                       /\ notified[i].success = (ops[op].status = "COMPLETADA")}) =
           Len(io_manager.status_listeners)
    /\ io_manager.stats.operations_succeeded + io_manager.stats.operations_failed =
           Len(io_manager.operation_history)
    /\ io_manager.stats.operations_succeeded =
           Cardinality({i \in 1..Len(io_manager.operation_history) :
                           io_manager.operation_history[i].success})

\* C22: if stop() is called while a request is inside perform_operation,
\* the request is not aborted: it still reaches a terminal status, its
\* outcome is counted, recorded in the run history and notified to the
\* listeners, and the dispatch loop then terminates.
C22_StopLetsRequestFinish ==
    /\ []((StoppedInside /\ io_manager.pc \in {"top", "stopped"}) =>
              OutcomeRecorded(ret[1].io_operation))
    /\ StoppedInside ~> (io_manager.pc = "stopped")

\* stop() came during the transfer of a request, which then succeeded and
\* was recorded; the thread is over
C22_Witness ==
    /\ StoppedInside
    /\ ret[1].pc = "transfer"
    /\ io_manager.pc = "stopped"
    /\ ops[ret[1].io_operation].status = "COMPLETADA"
    /\ OutcomeRecorded(ret[1].io_operation)

\* ---- C23
\* the step is a call of the named operation
CallNow(call) == calls'.calls = calls.calls + 1 /\ ret'.call = call

\* the step changed nothing of the three components
ComponentsUnchanged == UNCHANGED <<driver_table, buffer_manager, io_scheduler, ops>>

\* C23: operations on unknown identifiers return a negative or empty result
\* and change no state: get_driver of an unregistered device id returns
\* none, unregister_driver of an unregistered id returns false,
\* release_buffer of an unknown request id returns false,
\* get_next_operation for a device with no queue or an empty queue returns
\* none, and get_queue_length of an unknown device returns 0.
C23_UnknownIdsAreHarmless ==
    [][/\ (CallNow("get_driver") /\ ret'.id \notin DOMAIN driver_table.drivers) =>
             ret'.result = None /\ ComponentsUnchanged
       /\ (CallNow("unregister_driver") /\ ret'.id \notin DOMAIN driver_table.drivers) =>
             ret'.result = FALSE /\ ComponentsUnchanged
       /\ (CallNow("release_buffer") /\ ret'.id \notin DOMAIN buffer_manager.buffers) =>
             ret'.result = FALSE /\ ComponentsUnchanged
       /\ (CallNow("get_next_operation") /\ Queued(ret'.id) = <<>>) =>
             ret'.result = 0 /\ ComponentsUnchanged
       /\ (CallNow("get_queue_length") /\
              ret'.id \notin DOMAIN io_scheduler.operation_queues) =>
             ret'.result = 0 /\ ComponentsUnchanged]_vars

\* with a driver registered, a buffer allocated and a queue emptied, the
\* last call was one with an identifier the component does not know and
\* gave the negative result
C23_Witness ==
    /\ driver_table.drivers # EmptyMap
    /\ ret.call \in {"unregister_driver", "release_buffer"}
    /\ ret.id = 3
    /\ ret.result = FALSE
    /\ \E d \in Devices : /\ d \in DOMAIN io_scheduler.operation_queues
                           /\ io_scheduler.operation_queues[d].items = <<>>

\* ---- C24
\* Tallies tried beyond those the run reaches.
MaxTally == 4

\* get_success_rate of a manager with the given tallies is the fraction
\* 100 * succeeded / (succeeded + failed), 0 when both are 0, within [0, 100]
RateAsSpecified(m) ==
    LET r == get_success_rate(m)
        succeeded == m.stats.operations_succeeded
        failed == m.stats.operations_failed
    IN /\ r[2] > 0
       /\ (succeeded + failed = 0) => r[1] = 0
       /\ (succeeded + failed > 0) =>
              r[1] * (succeeded + failed) = 100 * succeeded * r[2]
       /\ 0 <= r[1] /\ r[1] <= 100 * r[2]

\* C24: get_success_rate() equals 100 * operations_succeeded /
\* (operations_succeeded + operations_failed), is 0 when no request has been
\* processed yet, and lies within [0, 100] after any sequence of processed
\* requests.
C24_SuccessRate ==
    /\ RateAsSpecified(io_manager)
    /\ \A succeeded \in 0..MaxTally, failed \in 0..MaxTally :
          RateAsSpecified([io_manager EXCEPT
                              !.stats.operations_succeeded = succeeded,
                              !.stats.operations_failed = failed])

\* one request succeeded and one failed: the rate is 50 percent
C24_Witness ==
    /\ io_manager.stats.operations_succeeded = 1
    /\ io_manager.stats.operations_failed = 1
    /\ get_success_rate(io_manager) = <<100, 2>>
    /\ io_manager.pc = "poll"

\* ---- C25
\* C25: a device accepts new requests only while connected: the status of a
\* request changes from pending to in progress only in a step in which the
\* status of its device is connected, for both drivers and in every
\* interleaving with external interrupts.
C25_StartedOnlyWhileConnected ==
    [][\A op \in 1..Len(ops) :
          (ops[op].status = "PENDIENTE" /\ ops'[op].status # "PENDIENTE") =>
              dcb[io_manager.device_id].status = "CONECTADO"]_vars

\* ---- C26
\* the step took a request from the queue of device d
DequeuedNow(d) ==
    /\ Len(sched_log'[d]) = Len(sched_log[d]) + 1
    /\ sched_log'[d][Len(sched_log'[d])][1] = "get"

\* C26: in each iteration the dispatch loop pulls a request from the
\* scheduler only for devices that are idle and connected: it dequeues
\* nothing for a device whose driver is missing or whose status is busy,
\* disconnected or error.
C26_DequeuesOnlyForConnected ==
    [][\A d \in Devices :
          DequeuedNow(d) =>
              /\ d \in DOMAIN get_all_drivers(driver_table)
              /\ dcb[d].status = "CONECTADO"]_vars

\* C26 as the code has it: the loop dequeues nothing for a device whose
\* driver is missing or whose status is busy; for a device that is
\* disconnected or in error it does take the next request.
C26_DequeuesUnlessBusy ==
    [][\A d \in Devices :
          DequeuedNow(d) =>
              /\ d \in DOMAIN get_all_drivers(driver_table)
              /\ dcb[d].status # "OCUPADO"]_vars

\* the loop has taken a request from the queue of a device that is
\* disconnected and is about to hand it to the driver
C26_Witness ==
    /\ io_manager.pc = "perform"
    /\ dcb[io_manager.device_id].status = "DESCONECTADO"
    /\ sched_log[io_manager.device_id][Len(sched_log[io_manager.device_id])] =
           <<"get", io_manager.io_operation>>

\* ---- C27
\* how often request op was enqueued, returned by get_next_operation,
\* started by a driver, recorded by the loop
TimesEnqueued(op) ==
    Count(Select(sched_log[1], "add"), op) + Count(Select(sched_log[2], "add"), op)
TimesDequeued(op) ==
    Count(Select(sched_log[1], "get"), op) + Count(Select(sched_log[2], "get"), op)
TimesStarted(op) == Count(drv_history[1], op) + Count(drv_history[2], op)
TimesRecorded(op) ==
    Cardinality({i \in 1..Len(io_manager.operation_history) :
                    io_manager.operation_history[i].operation_id = op})

\* C27: a failed request is never silently retried: each enqueued request
\* is dequeued and handed to a driver's perform_operation at most once, and
\* neither the driver nor the dispatch loop re-enqueues or re-executes a
\* request that failed or was rejected.
C27_NoSilentRetry ==
    \A op \in 1..Len(ops) :
        /\ TimesEnqueued(op) = 1
        /\ TimesDequeued(op) <= 1
        /\ TimesStarted(op) <= TimesDequeued(op)
        /\ TimesRecorded(op) <= TimesDequeued(op)
        /\ TimesDequeued(op) = 1 => ~Enqueued(op)
        /\ TimesRecorded(op) = 1 =>
               /\ ops[op].status \in {"PENDIENTE", "COMPLETADA", "FALLIDA"}
               /\ ops[op].status = "PENDIENTE" => TimesStarted(op) = 0

\* a rejected request and a failed one have been recorded; the loop has
\* started the next iteration and neither of them is in a queue
C27_Witness ==
    /\ Len(io_manager.operation_history) = 2
    /\ \E i, j \in 1..2 :
          /\ io_manager.operation_history[i].status = "PENDIENTE"
          /\ io_manager.operation_history[j].status = "FALLIDA"
    /\ io_manager.pc = "poll"
    /\ io_manager.todo = <<2>>
    /\ \A d \in Devices : Queued(d) = <<>>

\* ---- C28
\* C28: device identifiers are unique: across any sequence of add-device
\* and remove-device operations no two live drivers carry the same device
\* id, and adding a device never replaces a driver that is still registered
\* in the DeviceDriverTable.
C28_DeviceIdsUnique ==
    [][CallNow("add_device") =>
          /\ ret'.id \notin DOMAIN driver_table.drivers
          /\ \A device_id \in DOMAIN driver_table.drivers :
                driver_table'.drivers[device_id] = driver_table.drivers[device_id]]_vars

\* ---- C29
\* C29: triggering <NAME>_DISCONNECT for a character device returns to its
\* caller with the device status disconnected, and the handler's re-trigger
\* of the interrupt does not re-enter the handler: the call records the
\* trigger and the handler's one re-trigger, no more.
C29_DisconnectDoesNotReenter ==
    [][\A n \in TableTypes :
          (/\ TriggeredNow(n)
           /\ n \in DOMAIN interrupt_table.interrupt_handlers
           /\ interrupt_table.interrupt_handlers[n].method = "on_disconnect"
           /\ interrupt_table.interrupt_handlers[n].kind = "CARACTER") =>
              /\ ~ret'.raised
              /\ dcb'[interrupt_table.interrupt_handlers[n].driver].status = "DESCONECTADO"
              /\ HistoryExtended
              /\ Len(NewEntries) <= 2]_vars

\* the parts of C29 the program does satisfy: the call returns normally
\* with the status disconnected
DisconnectReturns ==
    [][\A n \in TableTypes :
          (/\ TriggeredNow(n)
           /\ n \in DOMAIN interrupt_table.interrupt_handlers
           /\ interrupt_table.interrupt_handlers[n].method = "on_disconnect"
           /\ interrupt_table.interrupt_handlers[n].kind = "CARACTER") =>
              /\ ~ret'.raised
              /\ dcb'[interrupt_table.interrupt_handlers[n].driver].status = "DESCONECTADO"]_vars

\* ---- C30
\* the requests enqueued for device d and not yet returned, in the order
\* add_operation enqueued them
RemainingInArrivalOrder(d) ==
    SelectSeq(Select(sched_log[d], "add"),
              LAMBDA op : op \notin Range(Select(sched_log[d], "get")))

ExternalNow(n) ==
    /\ calls'.interrupts = calls.interrupts + 1
    /\ Len(NewEntries) >= 1
    /\ NewEntries[1].type = n

\* the status a block driver's handler of the event sets
StatusAfter(event) ==
    CASE event = "CONNECT" -> "CONECTADO"
      [] event = "DISCONNECT" -> "DESCONECTADO"
      [] event = "ERROR" -> "ERROR"

BlockDevices == {d \in Devices : DeviceType(d) = "BLOQUE"}

\* C31: for a block device, triggering <NAME>_CONNECT, <NAME>_DISCONNECT
\* or <NAME>_ERROR sets the device status to connected, disconnected or
\* error from any prior status; only ERROR changes error_count, by exactly
\* +1, and none of the three changes the completed count, the bytes
\* transferred, the head position or any queue.
C31_BlockInterruptsSetStatus ==
    [][\A d \in BlockDevices, event \in ExternalEvents :
          ExternalNow(InterruptName(DeviceName(d), event)) =>
              /\ dcb' = [dcb EXCEPT ![d].status = StatusAfter(event),
                                    ![d].error_count =
                                        IF event = "ERROR" THEN @ + 1 ELSE @]
              /\ UNCHANGED <<io_scheduler, ops, drv_history, buffer_manager>>]_vars

\* the block device was disconnected while a request was inside
\* perform_operation (the status was busy), and put in error after a
\* disconnection
C31_Witness ==
    /\ io_manager.pc \in {"transfer", "finish"}
    /\ io_manager.device_id \in BlockDevices
    /\ dcb[io_manager.device_id].status = "ERROR"
    /\ dcb[io_manager.device_id].error_count = 1
    /\ Len(interrupt_table.interrupt_history) >= 2
    /\ LET h == interrupt_table.interrupt_history
           n == DeviceName(io_manager.device_id)
       IN /\ h[Len(h) - 1].type = InterruptName(n, "DISCONNECT")
          /\ h[Len(h)].type = InterruptName(n, "ERROR")

\* ---- C32
\* the dispatch thread is inside perform_operation of device d with a
\* request in progress
Executing(d) ==
    /\ io_manager.pc \in {"transfer", "finish"}
    /\ io_manager.device_id = d
    /\ ops[io_manager.io_operation].status = "EN_PROGRESO"

\* C32: the busy status is held only while a request is executing: in
\* every reachable state a device whose status is busy has a request in
\* progress inside perform_operation, so when perform_operation has
\* returned (success, fault or buffer refusal) the device is not busy.
C32_BusyOnlyWhileExecuting ==
    \A d \in Devices : dcb[d].status = "OCUPADO" => Executing(d)

\* ---- C33
\* C33: every record the dispatch loop appends to the run history has a
\* terminal request status (completed or failed), and its success flag is
\* true exactly when the status is completed, for requests dispatched to
\* devices in any status.
C33_RecordsAreTerminal ==
    \A i \in 1..Len(io_manager.operation_history) :
        LET op_record == io_manager.operation_history[i]
        IN /\ op_record.status \in Terminal
           /\ op_record.success <=> op_record.status = "COMPLETADA"

\* the part of C33 that holds: the success flag is true exactly when the
\* recorded status is completed
RecordsFlagMatchesStatus ==
    \A i \in 1..Len(io_manager.operation_history) :
        io_manager.operation_history[i].success <=>
            io_manager.operation_history[i].status = "COMPLETADA"

\* ---- C34
\* the step is the end of perform_operation: the dispatch thread leaves the
\* driver after the wait
PerformEndsNow == io_manager.pc = "finish" /\ io_manager'.pc = "record"

\* C34: an external DISCONNECT (or ERROR) interrupt that arrives while one
\* of the device's requests is inside perform_operation is not lost: when
\* that request finishes, the device status is still disconnected
\* (respectively error); the driver does not overwrite it.
C34_InterruptDuringPerformKept ==
    [][(PerformEndsNow /\ dcb[io_manager.device_id].status \in {"DESCONECTADO", "ERROR"}) =>
          dcb'[io_manager.device_id].status = dcb[io_manager.device_id].status]_vars

\* ---- C35
\* the request has a terminal status and a record in the run history
Settled(op) ==
    /\ op <= Len(ops)
    /\ ops[op].status \in Terminal
    /\ \E i \in 1..Len(io_manager.operation_history) :
          io_manager.operation_history[i].operation_id = op

\* C35: with the dispatch loop running under weak fairness, finitely many
\* submissions and no external interrupt or unregistration, every request
\* enqueued for a registered device that was connected when the request was
\* submitted eventually reaches a terminal status and appears in the run
\* history, whatever the outcome of the requests processed before it.
C35_ConnectedSubmissionsSettle ==
    \A op \in 1..MaxOps : (op \in ret) ~> Settled(op)

\* ---- C36
\* C36: once stop() has been called, the dispatch loop dequeues no further
\* request from the scheduler: requests still queued stay queued.
C36_NoDequeueAfterStop ==
    [][~io_manager.running => \A d \in Devices : ~DequeuedNow(d)]_vars

\* ---- C37
\* no call of set_algorithm or get_next_operation is under way
CallsFinished ==
    /\ submitters.set_algorithm.pc \in {"idle", "done"}
    /\ submitters.get_next_operation.pc = "idle"

\* C37: if set_algorithm runs on one thread while add_operation or
\* get_next_operation runs on another, then under every interleaving each
\* submitted request is either returned by exactly one get_next_operation
\* or in the current queue of its device once the calls have finished.
C37_SwitchLosesNoRequest ==
    CallsFinished =>
        \A d \in Devices : \A op \in Range(Select(sched_log[d], "add")) :
            Count(Select(sched_log[d], "get"), op) + Count(Queued(d), op) = 1

\* ---- C38
\* C38: get_next_operation and set_algorithm never block: when they run
\* concurrently on different threads, under every interleaving both calls
\* return; neither thread waits forever on an emptied queue.
C38_CallsReturn ==
    /\ (submitters.get_next_operation.pc # "idle") ~>
           (submitters.get_next_operation.pc = "idle")
    /\ (submitters.set_algorithm.pc # "idle") ~> (submitters.set_algorithm.pc = "done")

\* ---- C39
\* the sum of the data sizes of the requests recorded as succeeded
RECURSIVE SucceededData(_)
SucceededData(history) ==
    IF history = <<>> THEN 0
    ELSE (IF Head(history).success THEN ops[Head(history).operation_id].data_size_mb ELSE 0)
         + SucceededData(Tail(history))

\* the dispatch thread is between two iterations: at the loop test or
\* before the next device
BetweenIterations == io_manager.pc \in {"top", "poll", "stopped"}

\* the requests get_next_operation has returned to the loop
DequeuedSoFar ==
    UNION {{i \in 1..Len(sched_log[d]) : sched_log[d][i][1] = "get"} \X {d} : d \in Devices}

\* C39: at the end of every dispatch-loop iteration, operations_processed
\* = operations_succeeded + operations_failed = number of run-history
\* records = number of requests dequeued so far, and total_data_mb is the
\* sum of the sizes of the succeeded requests only.
C39_StatsConsistent ==
    BetweenIterations =>
        LET stats == io_manager.stats IN
        /\ stats.operations_processed = stats.operations_succeeded + stats.operations_failed
        /\ stats.operations_processed = Len(io_manager.operation_history)
        /\ stats.operations_processed = Cardinality(DequeuedSoFar)
        /\ stats.total_data_mb = SucceededData(io_manager.operation_history)

\* two iterations have ended, one request succeeded and one failed
C39_Witness ==
    /\ BetweenIterations
    /\ io_manager.stats.operations_succeeded = 1
    /\ io_manager.stats.operations_failed = 1
    /\ io_manager.stats.total_data_mb = MB(1) + 1

\* ---- C40
\* the sum of the sizes of the allocations recorded under the ids of S
RECURSIVE RecordedKb(_, _)
RecordedKb(bm, S) ==
    IF S = {} THEN 0
    ELSE LET id == CHOOSE x \in S : TRUE
         IN bm.buffers[id] + RecordedKb(bm, S \ {id})

\* C40: after any sequence of allocate_buffer and release_buffer calls
\* (repeated allocation under a request id that already holds an
\* allocation included), used_buffer_kb equals the sum of the sizes of the
\* allocations currently recorded in the pool, so that releasing every
\* recorded allocation returns the usage to 0.
C40_UsedIsSumOfRecorded ==
    buffer_manager.used_buffer_kb =
        RecordedKb(buffer_manager, DOMAIN buffer_manager.buffers)

=============================================================================
